---------------------------- MODULE Spec2Model ----------------------------
(***************************************************************************)
(* The API gateway's breaker-protected buffered proxy                       *)
(* (src/api-gateway/proxy.go): ProxyClient.ProxyJSON running p.cb.Execute   *)
(* on the sony/gobreaker circuit breaker built by NewProxyClient with       *)
(* MaxRequests 1, Interval 10 s, Timeout 30 s and ReadyToTrip               *)
(* "ConsecutiveFailures >= 3".                                              *)
(*                                                                          *)
(* Time is a discrete clock in seconds.  Every request handler is one Go    *)
(* routine; the breaker's mutex makes beforeRequest and afterRequest        *)
(* atomic, and the upstream call between them runs outside the lock.        *)
(*                                                                          *)
(* In front of it: the per-client token-bucket rate limiter                 *)
(* (RateLimiter.Middleware, 100 tokens per second, burst 200, one           *)
(* golang.org/x/time/rate limiter per identity, clock in hundredths of a    *)
(* second), the mux of server.NewMux with the /health, /agent and           *)
(* /agent/stream handlers, and eureka.Client.ResolveBaseURL, which picks    *)
(* the target among the instances the registry lists.                       *)
(*                                                                          *)
(* Spec is the breaker alone; BucketSpec one client's bucket while time     *)
(* passes; ConcurrentSpec the middleware's steps interleaved; GatewaySpec   *)
(* whole requests through middleware, mux and breaker; RoutingSpec the      *)
(* /agent routes with every registry answer; ResolveSpec ResolveBaseURL on  *)
(* its own; RegistrationSpec main's goroutine (registration, then           *)
(* heartbeats); AdminSpec the /admin/circuit-breaker handler beside proxied *)
(* calls; StreamSpec one streaming call chunk by chunk; DeadlineSpec the    *)
(* /agent handler's outbound calls and their contexts while time passes;    *)
(* AggregateSpec the /api-docs/aggregate handler; IdentitySpec getIP in     *)
(* front of the buckets; CancelSpec proxied calls whose callers go away;    *)
(* BodySpec the handlers that obtain upstream responses; HealthySpec the    *)
(* breaker in front of an upstream that recovers; CommitSpec the /agent     *)
(* routes over lists of two instances; BridgeSpec the MCP bridge of         *)
(* src/mcp-chrome/server.js (sendJsonRpc and the child's replies).          *)
(***************************************************************************)
EXTENDS Integers, FiniteSets, Sequences, TLC

\* ------------------------------------------------------------------ bounds
\* The clock stops at MaxTime seconds.
MaxTime == 70
\* At most MaxPerGen calls are begun while the breaker counts MaxPerGen requests
\* in its current generation (the counters are uint32; this caps them).
MaxPerGen == 3
\* Number of concurrently running request handlers.
NumHandlers == 2

\* The rate limiter's clock stops MaxCs hundredths of a second after the start.
MaxCs == 2
\* Requests a client other than ClientA sends in the runs without elapsing time.
MaxOther == 1
\* A flooding client sends requests of every kind once its bucket holds at most
\* Spare tokens.
Spare == 3
\* The registry lists at most MaxInstances instances of the application.
MaxInstances == 3
\* The counts of Register calls, heartbeats and failed heartbeats stop at
\* MaxCount (the calls go on).
MaxCount == 3
\* An upstream stream is followed for its first MaxChunks chunks.
MaxChunks == 2
\* The MCP bridge is followed for MaxCalls calls of sendJsonRpc.
MaxCalls == 2

\* The clock advances in steps of these many seconds.
TickSteps == {10}

Handlers == 1..NumHandlers

\* ----------------------------------------------------- settings (proxy.go)
\* gobreaker.Settings.MaxRequests: calls allowed through in half-open.
MaxRequestsTwo == 1 + 1
MaxRequests == 1
\* gobreaker.Settings.Interval: cyclic period of the closed state, seconds.
Interval == 10
\* gobreaker.Settings.Timeout: duration of the open state, seconds.
TimeoutShort == 30 - 10
Timeout == 30
\* Threshold of the ReadyToTrip callback.
TripThreshold == 3

\* States of gobreaker.State.
StateClosed == "closed"
StateHalfOpen == "half-open"
StateOpen == "open"

\* Errors of gobreaker.
ErrNone == "nil"
ErrOpenState == "circuit breaker is open"
ErrTooManyRequests == "too many requests"

\* HTTP status codes used by ProxyJSON's own answers.
StatusInternalServerError == 500
StatusBadGateway == 502
StatusServiceUnavailable == 503

\* What the upstream can do with one request: fail at the transport level
\* (client.Do returns an error and no response) or answer with a status.
\* Outcomes are numbers: a status, or TransportError for "no response".
TransportError == 0
UpstreamStatuses == {200, 404, 500}
Outcomes == {TransportError} \cup UpstreamStatuses
\* No upstream request was made (yet).
NoOutcome == 0 - 1
\* A nil *http.Response as Execute's result.
NilResult == 0

\* --------------------------------------------------------------- variables
VARIABLES
  now,        \* the clock (time.Now()), seconds
  cb,         \* the breaker: state, generation, counts, expiry
  pc,         \* per handler: "idle", or "inflight" (inside Execute, request sent)
  before,     \* per handler: the generation beforeRequest returned (0 when idle)
  sent,       \* per handler: upstream requests made by the invocation under way
  out,        \* what the last step wrote to a caller and recorded (NoOut: nothing)
  opened,     \* history: when and how the breaker entered OPEN (NotOpen when not OPEN)
  streak,     \* history: failures in a row on a CLOSED breaker (row: all, capped;
              \* rec: the latest ones, recorded in generation gen)
  sinceClose, \* history: calls begun since HALF_OPEN -> CLOSED (-1: none, capped)
  cs,         \* the clock's hundredths of a second past `now`
  ips,        \* RateLimiter.ips: identity -> its *rate.Limiter (0: no entry)
  limiters,   \* the rate.Limiter objects allocated so far, by address 1, 2, ...
  mw,         \* per handler: its place in RateLimiter.Middleware
  cfg,        \* config.Config: AgentBaseURL, the static fallback
  mcp,        \* the MCP bridge: its calls, the pending map, the child's input
  resp,       \* what the last step of the middleware and the mux answered
  hist,       \* history of the rate limiter's decisions, per identity
  eureka,     \* the registry's instance list and what ResolveBaseURL made of it
  bg,         \* main's goroutine: registration, then heartbeats; the registry
  adm,        \* per handler: its place in the /admin/circuit-breaker handler
  st,         \* per handler: the streaming call it runs (NoStream: none)
  rq          \* per handler: the age of its request's context, and its caller

vars == <<now, cb, pc, before, sent, out, opened, streak, sinceClose,
          cs, ips, limiters, mw, cfg, mcp, resp, hist, eureka, bg, adm, st, rq>>
\* The variables of main's goroutine, the admin handler, the streams and the
\* requests' contexts.
svc == <<bg, adm, st, rq>>
\* The variables of the rate limiter, the mux and the registry client.
gwvars == <<cs, ips, limiters, mw, cfg, mcp, resp, hist, eureka>>
\* The breaker's history variables.
cbhist == <<opened, streak, sinceClose>>

\* ------------------------------------------------------ gobreaker.Counts
ZeroCounts ==
  [Requests |-> 0, TotalSuccesses |-> 0, TotalFailures |-> 0,
   ConsecutiveSuccesses |-> 0, ConsecutiveFailures |-> 0]

CountsOnRequest(c) == [c EXCEPT !.Requests = @ + 1]

\* A success that leaves the run of failures standing.
CountsOnSuccessKeepFailures(c) ==
  [c EXCEPT !.TotalSuccesses = @ + 1,
            !.ConsecutiveSuccesses = @ + 1]

CountsOnSuccess(c) ==
  [c EXCEPT !.TotalSuccesses = @ + 1,
            !.ConsecutiveSuccesses = @ + 1,
            !.ConsecutiveFailures = 0]

CountsOnFailure(c) ==
  [c EXCEPT !.TotalFailures = @ + 1,
            !.ConsecutiveFailures = @ + 1,
            !.ConsecutiveSuccesses = 0]

\* ------------------------------------------------ gobreaker.CircuitBreaker
\* The zero time.Time (expiry of the half-open state): before every clock value
\* the breaker ever adds Interval or Timeout to.
ZeroTime == 0
IsZero(t) == t = ZeroTime

\* time.Time.Before: strictly earlier.
Before(t, u) == t < u

\* ReadyToTrip of NewProxyClient: trip on 3 or more consecutive failures.
ReadyToTripAtFour(counts) == counts.ConsecutiveFailures >= TripThreshold + 1
ReadyToTrip(counts) == counts.ConsecutiveFailures >= TripThreshold

\* toNewGeneration: a new generation, cleared counts and the state's expiry.
ToNewGenerationKeepCounts(b, t) ==
  [b EXCEPT !.generation = @ + 1,
            !.expiry = CASE b.state = StateClosed ->
                              IF Interval = 0 THEN ZeroTime ELSE t + Interval
                         [] b.state = StateOpen -> t + Timeout
                         [] OTHER -> ZeroTime]

ToNewGeneration(b, t) ==
  [b EXCEPT !.generation = @ + 1,
            !.counts = ZeroCounts,
            !.expiry = CASE b.state = StateClosed ->
                              IF Interval = 0 THEN ZeroTime ELSE t + Interval
                         [] b.state = StateOpen -> t + Timeout
                         [] OTHER -> ZeroTime]

\* setState: nothing when the state is unchanged, else the state and a new generation.
SetState(b, state, t) ==
  IF b.state = state THEN b
  ELSE ToNewGeneration([b EXCEPT !.state = state], t)

\* currentState: closed past its interval starts a new generation; open past
\* its timeout becomes half-open.
CurrentState(b, t) ==
  CASE b.state = StateClosed ->
         IF ~IsZero(b.expiry) /\ Before(b.expiry, t) THEN ToNewGeneration(b, t) ELSE b
    [] b.state = StateOpen ->
         IF Before(b.expiry, t) THEN SetState(b, StateHalfOpen, t) ELSE b
    [] OTHER -> b

\* CircuitBreaker.State(): currentState under the breaker's lock, which
\* starts the new generation or enters half-open when that is due.
\* CircuitBreaker.Counts(): the counters as stored.
State(b, t) == [cb |-> CurrentState(b, t), state |-> CurrentState(b, t).state]
Counts(b) == b.counts

\* beforeRequest: the breaker after the call, the generation and the error.
BeforeRequest(b, t) ==
  LET c == CurrentState(b, t) IN
  IF c.state = StateOpen
    THEN [cb |-> c, generation |-> c.generation, err |-> ErrOpenState]
  ELSE IF c.state = StateHalfOpen /\ c.counts.Requests >= MaxRequests
    THEN [cb |-> c, generation |-> c.generation, err |-> ErrTooManyRequests]
  ELSE [cb |-> [c EXCEPT !.counts = CountsOnRequest(@)],
        generation |-> c.generation, err |-> ErrNone]

\* An onSuccess that leaves the half-open breaker as it is.
OnSuccessStaysHalfOpen(b, state, t) ==
  CASE state = StateClosed -> [b EXCEPT !.counts = CountsOnSuccess(@)]
    [] state = StateHalfOpen -> [b EXCEPT !.counts = CountsOnSuccess(@)]
    [] OTHER -> b

\* onSuccess
OnSuccess(b, state, t) ==
  CASE state = StateClosed -> [b EXCEPT !.counts = CountsOnSuccess(@)]
    [] state = StateHalfOpen ->
         LET c == [b EXCEPT !.counts = CountsOnSuccess(@)] IN
         IF c.counts.ConsecutiveSuccesses >= MaxRequests
           THEN SetState(c, StateClosed, t) ELSE c
    [] OTHER -> b

\* onFailure
OnFailure(b, state, t) ==
  CASE state = StateClosed ->
         LET c == [b EXCEPT !.counts = CountsOnFailure(@)] IN
         IF ReadyToTrip(c.counts) THEN SetState(c, StateOpen, t) ELSE c
    [] state = StateHalfOpen -> SetState(b, StateOpen, t)
    [] OTHER -> b

\* An afterRequest that counts the outcome whatever generation admitted the
\* call.
AfterRequestAnyGeneration(b, gen, success, t) ==
  LET c == CurrentState(b, t) IN
  IF success THEN [cb |-> OnSuccess(c, c.state, t), branch |-> "success"]
  ELSE [cb |-> OnFailure(c, c.state, t), branch |-> "failure"]

\* afterRequest: the outcome of a call of an earlier generation is dropped.
\* The breaker after the call, and the branch taken.
AfterRequest(b, gen, success, t) ==
  LET c == CurrentState(b, t) IN
  IF c.generation # gen THEN [cb |-> c, branch |-> "dropped"]
  ELSE IF success THEN [cb |-> OnSuccess(c, c.state, t), branch |-> "success"]
  ELSE [cb |-> OnFailure(c, c.state, t), branch |-> "failure"]

\* ------------------------------------------------------ ProxyClient.ProxyJSON
\* The function ProxyJSON hands to Execute: client.Do's outcome as (result, err).
\* A transport error gives no response; a status >= 500 gives the response
\* wrapped with an error, so that the breaker counts a failure.
ReqResult4xxFails(o) ==
  IF o = TransportError THEN [result |-> NilResult, err |-> "transport error"]
  ELSE IF o >= 400 THEN [result |-> o, err |-> "upstream error"]
  ELSE [result |-> o, err |-> ErrNone]

ReqResultAbove500(o) ==
  IF o = TransportError THEN [result |-> NilResult, err |-> "transport error"]
  ELSE IF o > 500 THEN [result |-> o, err |-> "upstream error"]
  ELSE [result |-> o, err |-> ErrNone]

ReqResult(o) ==
  IF o = TransportError THEN [result |-> NilResult, err |-> "transport error"]
  ELSE IF o >= 500 THEN [result |-> o, err |-> "upstream error"]
  ELSE [result |-> o, err |-> ErrNone]

\* gobreaker's default IsSuccessful: err == nil.
IsSuccessful(err) == err = ErrNone

\* The Content-Type of what the gateway writes: http.Error sets text/plain,
\* the forwarded upstream answer and the JSON encoders application/json.
TextPlain == "text/plain; charset=utf-8"
ApplicationJSON == "application/json"
MsgOpen == "Service Unavailable (Circuit Breaker Open)"
MsgHalfOpenLimit == "Service Unavailable (Circuit Breaker Half-Open Limit)"
MsgUpstreamFailed == "Upstream failed"
MsgInternal == "Internal Proxy Error"
MsgBody == "upstream body"

\* What ProxyJSON writes to the caller for Execute's (result, err).
ResponseNoOpenCheck(result, err) ==
  IF err = ErrTooManyRequests
    THEN [status |-> StatusServiceUnavailable, msg |-> MsgHalfOpenLimit,
          ctype |-> TextPlain]
  ELSE IF result = NilResult /\ err # ErrNone
    THEN [status |-> StatusBadGateway, msg |-> MsgUpstreamFailed,
          ctype |-> TextPlain]
  ELSE IF result = NilResult
    THEN [status |-> StatusInternalServerError, msg |-> MsgInternal,
          ctype |-> TextPlain]
  ELSE [status |-> result, msg |-> MsgBody, ctype |-> ApplicationJSON]

ResponseNoNilCheck(result, err) ==
  IF err = ErrOpenState
    THEN [status |-> StatusServiceUnavailable, msg |-> MsgOpen,
          ctype |-> TextPlain]
  ELSE IF err = ErrTooManyRequests
    THEN [status |-> StatusServiceUnavailable, msg |-> MsgHalfOpenLimit,
          ctype |-> TextPlain]
  ELSE IF result = NilResult
    THEN [status |-> StatusInternalServerError, msg |-> MsgInternal,
          ctype |-> TextPlain]
  ELSE [status |-> result, msg |-> MsgBody, ctype |-> ApplicationJSON]

ResponseErrIsBadGateway(result, err) ==
  IF err = ErrOpenState
    THEN [status |-> StatusServiceUnavailable, msg |-> MsgOpen,
          ctype |-> TextPlain]
  ELSE IF err = ErrTooManyRequests
    THEN [status |-> StatusServiceUnavailable, msg |-> MsgHalfOpenLimit,
          ctype |-> TextPlain]
  ELSE IF err # ErrNone
    THEN [status |-> StatusBadGateway, msg |-> MsgUpstreamFailed,
          ctype |-> TextPlain]
  ELSE IF result = NilResult
    THEN [status |-> StatusInternalServerError, msg |-> MsgInternal,
          ctype |-> TextPlain]
  ELSE [status |-> result, msg |-> MsgBody, ctype |-> ApplicationJSON]

Response(result, err) ==
  IF err = ErrOpenState
    THEN [status |-> StatusServiceUnavailable, msg |-> MsgOpen,
          ctype |-> TextPlain]
  ELSE IF err = ErrTooManyRequests
    THEN [status |-> StatusServiceUnavailable, msg |-> MsgHalfOpenLimit,
          ctype |-> TextPlain]
  ELSE IF result = NilResult /\ err # ErrNone
    THEN [status |-> StatusBadGateway, msg |-> MsgUpstreamFailed,
          ctype |-> TextPlain]
  ELSE IF result = NilResult
    THEN [status |-> StatusInternalServerError, msg |-> MsgInternal,
          ctype |-> TextPlain]
  ELSE [status |-> result, msg |-> MsgBody, ctype |-> ApplicationJSON]

\* The upstream response bodies a handler obtained, and how many of them it
\* had closed when it returned.
NoBodies == [got |-> 0, closed |-> 0]
OneBody(closed) == [got |-> 1, closed |-> IF closed THEN 1 ELSE 0]
\* ProxyJSON lines 71-94: no response when the breaker refused or the
\* transport failed; else the response, 5xx included, whose body the deferred
\* Close closes.
ProxyJSONBodies(result, err) ==
  IF err = ErrOpenState \/ err = ErrTooManyRequests THEN NoBodies
  ELSE IF result = NilResult THEN NoBodies
  ELSE OneBody(TRUE)

\* http.NewRequest refused the URL: 500, before the breaker is consulted.
BadRequestResp == [status |-> StatusInternalServerError, msg |-> "invalid request",
          ctype |-> TextPlain]

\* client.Do inside the executed function: one request to the upstream.
ClientDoWithRetry(n) == n + 2
ClientDo(n) == n + 1

Min(x, y) == IF x <= y THEN x ELSE y

\* The step wrote nothing to any caller.
NoOut == [op |-> "none", status |-> 0, msg |-> "none", ctype |-> "none", outcome |-> NoOutcome,
          recorded |-> "none", sent |-> 0, bodies |-> NoBodies]

\* Operation `op` answered its caller with r, after `n` upstream requests with
\* outcome o, afterRequest having taken the branch `rec`.
Out(op, r, o, rec, n) ==
  [op |-> op, status |-> r.status, msg |-> r.msg, ctype |-> r.ctype, outcome |-> o,
   recorded |-> rec, sent |-> n, bodies |-> NoBodies]

\* Begin admitted the call: nothing is written yet.
Admitted == [NoOut EXCEPT !.op = "Begin"]

\* ------------------------------------------- golang.org/x/time/rate.Limiter
\* Client identities, as getIP returns them.
ClientA == "10.0.0.1"
ClientB == "10.0.0.2"
Identities == {ClientA, ClientB}

\* NewRateLimiter(100, 200) of main: tokens per second, and bucket size.
RateSlow == 100 - 70
Rate == 100
Burst == 200

\* The rate limiter's clock counts hundredths of a second.
CsPerSecond == 100
\* time.Now() in hundredths of a second since the process started.
Instant == now * CsPerSecond + cs
\* The zero time.Time, the `last` of a Limiter never used: long before the start.
RateZeroTime == 0 - 1000000

\* rate.NewLimiter(r, b): a full bucket that has never been used.
NewLimiter(r, b) == [limit |-> r, burst |-> b, tokens |-> b, last |-> RateZeroTime]

\* Limit.tokensFromDuration: tokens accumulated in d hundredths of a second.
TokensFromDuration(limit, d) == (d * limit) \div CsPerSecond
\* Limit.durationFromTokens: the time to accumulate `tokens` (a float of
\* seconds cut to nanoseconds: positive for every whole token missing).
DurationFromTokens(limit, tokens) == (tokens * CsPerSecond + limit - 1) \div limit

\* Limiter.advance: the tokens at time t, capped at the burst.
AdvanceNoCap(lim, t) ==
  LET last == IF Before(t, lim.last) THEN t ELSE lim.last
  IN  lim.tokens + TokensFromDuration(lim.limit, t - last)
Advance(lim, t) ==
  LET last == IF Before(t, lim.last) THEN t ELSE lim.last
      tokens == lim.tokens + TokensFromDuration(lim.limit, t - last)
  IN  IF tokens > lim.burst THEN lim.burst ELSE tokens

\* Limiter.reserveN(t, n, maxFutureReserve): take n tokens at time t when the
\* wait for them is at most maxFutureReserve; the bucket changes only then.
ReserveN(lim, t, n, maxFutureReserve) ==
  LET tokens == Advance(lim, t) - n
      waitDuration == IF tokens < 0 THEN DurationFromTokens(lim.limit, 0 - tokens)
                      ELSE 0
      ok == n <= lim.burst /\ waitDuration <= maxFutureReserve
  IN  [ok |-> ok,
       lim |-> IF ok THEN [lim EXCEPT !.last = t, !.tokens = tokens] ELSE lim]

\* Limiter.Allow(): AllowN(time.Now(), 1).
Allow(lim, t) == ReserveN(lim, t, 1, 0)

\* ------------------------------------------------- middleware.RateLimiter
\* NewRateLimiter: an empty map.
NewRateLimiter == [ip \in Identities |-> 0]

\* getLimiter(ip), under the mutex: the identity's limiter, made on first
\* sight.  m is the map, heap the limiters allocated so far; the result names
\* the limiter by its address.
getLimiterAlwaysNew(m, heap, ip) ==
  [ips |-> [m EXCEPT ![ip] = Len(heap) + 1],
   heap |-> Append(heap, NewLimiter(Rate, Burst)),
   limiter |-> Len(heap) + 1]
getLimiterShared(m, heap, ip) ==
  IF heap # <<>>
    THEN [ips |-> [m EXCEPT ![ip] = 1], heap |-> heap, limiter |-> 1]
    ELSE [ips |-> [m EXCEPT ![ip] = 1],
          heap |-> <<NewLimiter(Rate, Burst)>>, limiter |-> 1]
getLimiter(m, heap, ip) ==
  IF m[ip] # 0
    THEN [ips |-> m, heap |-> heap, limiter |-> m[ip]]
    ELSE [ips |-> [m EXCEPT ![ip] = Len(heap) + 1],
          heap |-> Append(heap, NewLimiter(Rate, Burst)),
          limiter |-> Len(heap) + 1]

StatusOK == 200
StatusMethodNotAllowed == 405
StatusTooManyRequests == 429
BodyTooManyRequests == "{\"error\":\"Too Many Requests\"}"
BodyHealthOK == "{\"status\":\"ok\"}"
BodyNoBaseURL == "no agent service base url"
BodyMethodNotAllowed == "method not allowed"

\* ------------------------------------------- eureka.Client.ResolveBaseURL
\* Strings the code takes apart or puts together are sequences: a status is
\* the sequence of its letters, a URL a sequence of pieces, "/" being a piece
\* of its own.
LowerLetters == <<"d", "n", "o", "p", "u", "w">>
UpperLetters == <<"D", "N", "O", "P", "U", "W">>
ToUpper(c) ==
  IF \E i \in 1..Len(LowerLetters) : LowerLetters[i] = c
    THEN UpperLetters[CHOOSE i \in 1..Len(LowerLetters) : LowerLetters[i] = c]
    ELSE c

\* strings.EqualFold: equal up to the case of the letters.
EqualFold(s, t) ==
  /\ Len(s) = Len(t)
  /\ \A i \in 1..Len(s) : ToUpper(s[i]) = ToUpper(t[i])

\* strings.TrimRight(s, cutset) for a one-character cutset.
RECURSIVE TrimRight(_, _)
TrimRight(s, c) ==
  IF s # <<>> /\ s[Len(s)] = c THEN TrimRight(SubSeq(s, 1, Len(s) - 1), c) ELSE s

\* fmt's %d: the decimal digits of n.
DecimalDigits == <<"0", "1", "2", "3", "4", "5", "6", "7", "8", "9">>
RECURSIVE Itoa(_)
Itoa(n) ==
  IF n < 0 THEN <<"-">> \o Itoa(0 - n)
  ELSE IF n < 10 THEN <<DecimalDigits[n + 1]>>
  ELSE Itoa(n \div 10) \o <<DecimalDigits[(n % 10) + 1]>>

StatusUP == <<"U", "P">>
EmptyString == <<>>

ErrTransport == "transport error"
ErrResolveFailed == "resolve app failed"
ErrDecode == "json decode error"
ErrNoInstances == "no instances"
ErrMissingURL == "instance missing url fields"

\* The index of the instance ResolveBaseURL picks: the first one that is UP,
\* otherwise the first one; 0 when the list is empty.
ChosenLastUp(instances) ==
  LET ups == {i \in 1..Len(instances) : EqualFold(instances[i].status, StatusUP)}
  IN  IF ups # {} THEN CHOOSE i \in ups : \A j \in ups : j <= i
      ELSE IF Len(instances) > 0 THEN 1 ELSE 0
Chosen(instances) ==
  LET ups == {i \in 1..Len(instances) : EqualFold(instances[i].status, StatusUP)}
  IN  IF ups # {} THEN CHOOSE i \in ups : \A j \in ups : i <= j
      ELSE IF Len(instances) > 0 THEN 1 ELSE 0

\* The address of the chosen instance: its home page without trailing
\* slashes, else http://ip:port, else an error.
InstanceURLIPFirst(chosen) ==
  IF chosen.ipAddr # EmptyString /\ chosen.port # 0
    THEN [url |-> <<"http://">> \o chosen.ipAddr \o <<":">> \o Itoa(chosen.port),
          err |-> ErrNone]
  ELSE IF chosen.homePageUrl # EmptyString
    THEN [url |-> TrimRight(chosen.homePageUrl, "/"), err |-> ErrNone]
  ELSE [url |-> EmptyString, err |-> ErrMissingURL]
InstanceURL(chosen) ==
  IF chosen.homePageUrl # EmptyString
    THEN [url |-> TrimRight(chosen.homePageUrl, "/"), err |-> ErrNone]
  ELSE IF chosen.ipAddr # EmptyString /\ chosen.port # 0
    THEN [url |-> <<"http://">> \o chosen.ipAddr \o <<":">> \o Itoa(chosen.port),
          err |-> ErrNone]
  ELSE [url |-> EmptyString, err |-> ErrMissingURL]

\* A resolution that passes over the instances without an address.
ResolveInstancesNextUsable(instances) ==
  LET usable == {i \in 1..Len(instances) :
                   /\ EqualFold(instances[i].status, StatusUP)
                   /\ InstanceURL(instances[i]).err = ErrNone}
      i == IF usable # {} THEN CHOOSE k \in usable : \A j \in usable : k <= j
           ELSE Chosen(instances)
  IN
  IF i = 0 THEN [url |-> EmptyString, err |-> ErrNoInstances, chosen |-> 0]
  ELSE [url |-> InstanceURL(instances[i]).url,
        err |-> InstanceURL(instances[i]).err, chosen |-> i]

\* ResolveBaseURL lines 131-152, on the decoded instance list.
ResolveInstances(instances) ==
  LET i == Chosen(instances) IN
  IF i = 0 THEN [url |-> EmptyString, err |-> ErrNoInstances, chosen |-> 0]
  ELSE [url |-> InstanceURL(instances[i]).url,
        err |-> InstanceURL(instances[i]).err, chosen |-> i]

\* What the registry can answer to GET /apps/{APP}: nothing (a transport error
\* or the deadline), a status other than 200, a body that is no JSON, or a
\* list of instances.
ReplyError == [kind |-> "error", instances |-> <<>>]
ReplyNot200 == [kind |-> "not200", instances |-> <<>>]
ReplyBadJSON == [kind |-> "badjson", instances |-> <<>>]
ReplyOK(instances) == [kind |-> "ok", instances |-> instances]

\* ResolveBaseURL lines 109-153.
ResolveBaseURL(reply) ==
  IF reply.kind = "error"
    THEN [url |-> EmptyString, err |-> ErrTransport, chosen |-> 0]
  ELSE IF reply.kind = "not200"
    THEN [url |-> EmptyString, err |-> ErrResolveFailed, chosen |-> 0]
  ELSE IF reply.kind = "badjson"
    THEN [url |-> EmptyString, err |-> ErrDecode, chosen |-> 0]
  ELSE ResolveInstances(reply.instances)

\* Instances the registry may list.
Instance(status, home, ip, port) ==
  [status |-> status, homePageUrl |-> home, ipAddr |-> ip, port |-> port]
InstanceSet ==
  { Instance(<<"U", "P">>, <<"http://a:8000">>, <<"10.1.0.1">>, 8000),
    Instance(<<"u", "p">>, <<"http://b:8000", "/">>, <<"10.1.0.2">>, 8000),
    Instance(<<"D", "O", "W", "N">>, <<"http://c:8000">>, EmptyString, 0),
    Instance(<<"U", "p">>, EmptyString, <<"10.1.0.4">>, 8000),
    Instance(<<"D", "O", "W", "N">>, EmptyString, <<"10.1.0.5">>, 0),
    Instance(<<"U", "P">>, EmptyString, EmptyString, 8000),
    Instance(<<"U", "P", "S">>, <<"/">>, <<"10.1.0.7">>, 80),
    Instance(<<"D", "O", "W", "N">>, EmptyString, EmptyString, 0) }
InstanceLists == UNION {[1..n -> InstanceSet] : n \in 0..MaxInstances}

\* ------------------------------------------------------ server.NewMux
RouteHealth == "/health"
RouteAgent == "/agent"
RouteAgentStream == "/agent/stream"
PathRecommendations == <<"/", "recommendations">>
PathRecommendationsStream == <<"/", "recommendations", "/", "stream">>

\* cfg.AgentBaseURL: unset, or the static fallback (without trailing slash).
StaticBaseURL == <<"http://static:8000">>
Configs == {[AgentBaseURL |-> EmptyString], [AgentBaseURL |-> StaticBaseURL]}

\* An inbound request: the identity getIP gives it, its method and its path.
Request(ip, method, route) == [ip |-> ip, method |-> method, route |-> route]
NoRequest == Request("none", "none", "none")

\* What a mux handler does with a request: answer it itself, or hand it to the
\* proxy with a target URL.  lookups counts its calls of ResolveBaseURL.
NoResult == [url |-> EmptyString, err |-> "none", chosen |-> 0]
Answer(status, body, lookups) ==
  [kind |-> "answer", status |-> status, body |-> body, ctype |-> ApplicationJSON,
   lookups |-> lookups, resolved |-> NoResult, target |-> EmptyString,
   via |-> "none"]
Proxied(via, target) ==
  [kind |-> "proxy", status |-> 0, body |-> "none", ctype |-> "none",
   lookups |-> 1, resolved |-> NoResult, target |-> target, via |-> via]
\* http.Error(w, msg, code) in a handler: the message as plain text.
HTTPError(msg, code, lookups) ==
  [Answer(code, msg, lookups) EXCEPT !.ctype = TextPlain]

\* The /health handler (handlers.go 63-66): 200 and the fixed body, whatever
\* the method.
HealthHandlerNoBody(req) == Answer(StatusOK, "none", 0)
HealthHandler(req) == Answer(StatusOK, BodyHealthOK, 0)

\* base of the /agent handlers: the static URL, replaced by the resolved one
\* when ResolveBaseURL returned no error.
AgentBase(c, res) == IF res.err = ErrNone THEN res.url ELSE c.AgentBaseURL

\* Handlers that look the target up before they check the method.
AgentHandlerLookupFirst(c, req, reply, path, via) ==
  LET res == ResolveBaseURL(reply)
      base == AgentBase(c, res)
  IN  IF req.method # "POST"
        THEN [HTTPError(BodyMethodNotAllowed, StatusMethodNotAllowed, 1)
                EXCEPT !.resolved = res]
      ELSE IF base = EmptyString
        THEN [HTTPError(BodyNoBaseURL, StatusInternalServerError, 1)
                EXCEPT !.resolved = res]
      ELSE [Proxied(via, base \o path) EXCEPT !.resolved = res]

\* The /agent and /agent/stream handlers (handlers.go 205-225, 228-248).
AgentHandler(c, req, reply, path, via) ==
  IF req.method # "POST"
    THEN HTTPError(BodyMethodNotAllowed, StatusMethodNotAllowed, 0)
  ELSE LET res == ResolveBaseURL(reply)
           base == AgentBase(c, res)
       IN  IF base = EmptyString
             THEN [HTTPError(BodyNoBaseURL, StatusInternalServerError, 1)
                     EXCEPT !.resolved = res]
             ELSE [Proxied(via, base \o path) EXCEPT !.resolved = res]

\* The mux: the handler of the request's path.
Mux(c, req, reply) ==
  IF req.route = RouteHealth THEN HealthHandler(req)
  ELSE IF req.route = RouteAgent
    THEN AgentHandler(c, req, reply, PathRecommendations, "ProxyJSON")
  ELSE AgentHandler(c, req, reply, PathRecommendationsStream, "ProxyStream")

\* ------------------------------------------------------- step outputs
\* What /admin/circuit-breaker reports: the state and the five counters.
NoSnapshot == [state |-> "none", counts |-> ZeroCounts]
\* No step of the middleware or the mux answered.
NoResp ==
  [op |-> "none", req |-> NoRequest, allowed |-> FALSE, status |-> 0,
   body |-> "none", ctype |-> "none", lookups |-> 0, resolved |-> NoResult,
   target |-> EmptyString, via |-> "none", snapshot |-> NoSnapshot,
   services |-> <<>>, count |-> 0]
\* The middleware refused the request: 429 and the JSON error body.
TooManyRequests(req) ==
  [NoResp EXCEPT !.op = "Middleware", !.req = req,
                 !.status = StatusTooManyRequests, !.body = BodyTooManyRequests,
                 !.ctype = ApplicationJSON]
\* The middleware let the request through and the mux handled it as `plan`.
Served(req, plan) ==
  [op |-> "Middleware", req |-> req, allowed |-> TRUE, status |-> plan.status,
   body |-> plan.body, ctype |-> plan.ctype, lookups |-> plan.lookups,
   resolved |-> plan.resolved,
   target |-> plan.target, via |-> plan.via, snapshot |-> NoSnapshot,
   services |-> <<>>, count |-> 0]

\* A handler outside the middleware.
NoMw == [stage |-> "idle", req |-> NoRequest, lim |-> 0]

\* ------------------------------------------------- history of decisions
NoInstant == 0 - 1
\* Per identity: requests allowed since the window's start; the instant of its
\* latest request; the number of its requests so far when all were made at the
\* instant of the first (0: none yet, or some came later), capped; that
\* instant; and the bucket the identity would have if it were the only client.
NewHistOf ==
  [allowed |-> 0, lastReq |-> NoInstant, asked |-> 0, born |-> NoInstant,
   solo |-> NewLimiter(Rate, Burst)]
NewHist(start) == [start |-> start, of |-> [ip \in Identities |-> NewHistOf]]
Noted(hst, ip, ok, t) ==
  LET e == hst.of[ip] IN
  [hst EXCEPT !.of[ip] =
     [allowed |-> IF ok /\ t >= hst.start THEN e.allowed + 1 ELSE e.allowed,
      lastReq |-> t,
      asked |-> IF e.born = NoInstant THEN 1
                ELSE IF e.asked > 0 /\ e.born = t THEN Min(e.asked + 1, Burst + 1)
                ELSE 0,
      born |-> IF e.born = NoInstant THEN t ELSE e.born,
      solo |-> Allow(e.solo, t).lim]]

\* The registry client has resolved nothing.
NoEureka == [reply |-> ReplyError, result |-> NoResult, done |-> TRUE]

NotOpen == [at |-> 0 - 1, by |-> "none"]
NoStreak == [row |-> 0, rec |-> 0, gen |-> 0]

\* ------------------------------------------------- main: the goroutine
\* time.Sleep(5 * time.Second) after a failed Register, and
\* time.NewTicker(30 * time.Second) for the heartbeats.
RegisterBackoff == 5
HeartbeatPeriod == 30
\* The goroutine's timers count seconds in steps of TimerStep.
TimerStep == RegisterBackoff

\* eureka.Client.Register and Heartbeat: nil when the registry answers 2xx,
\* an error when it does not answer, or answers something else.
ErrRegister == "eureka register failed"
ErrHeartbeat == "eureka heartbeat failed"
Register(registry) == IF registry = "up" THEN ErrNone ELSE ErrRegister
Heartbeat(registry) == IF registry = "up" THEN ErrNone ELSE ErrHeartbeat

\* The goroutine at its start: about to call Register.  pc is its place
\* ("register", "sleep": in time.Sleep, "ticker": waiting on t.C, "done": the
\* goroutine returned), timer the seconds until the sleep ends or the ticker
\* fires, registry the registry's current disposition, step the latest step.
NewBg ==
  [pc |-> "register", timer |-> 0, registry |-> "down", registered |-> FALSE,
   running |-> TRUE, registers |-> 0, beats |-> 0, missed |-> 0, step |-> "none"]

\* main lines 28-36: a nil error leaves the loop and starts the ticker, an
\* error is logged and followed by the sleep.
OnRegisterBestEffort(b, err) ==
  IF err = ErrNone
    THEN [b EXCEPT !.pc = "ticker", !.timer = HeartbeatPeriod, !.registered = TRUE]
    ELSE [b EXCEPT !.pc = "done"]
OnRegister(b, err) ==
  IF err = ErrNone
    THEN [b EXCEPT !.pc = "ticker", !.timer = HeartbeatPeriod, !.registered = TRUE]
    ELSE [b EXCEPT !.pc = "sleep", !.timer = RegisterBackoff]

\* main lines 38-44: a heartbeat's error is logged (log.Printf), and the loop
\* waits for the next tick.
OnHeartbeatReRegister(b, err) ==
  IF err = ErrNone THEN [b EXCEPT !.timer = HeartbeatPeriod]
  ELSE [b EXCEPT !.pc = "register", !.timer = 0,
                 !.missed = IF @ < MaxCount THEN @ + 1 ELSE @]
OnHeartbeatFatal(b, err) ==
  IF err = ErrNone THEN [b EXCEPT !.timer = HeartbeatPeriod]
  ELSE [b EXCEPT !.running = FALSE, !.pc = "done",
                 !.missed = IF @ < MaxCount THEN @ + 1 ELSE @]
OnHeartbeat(b, err) ==
  IF err = ErrNone THEN [b EXCEPT !.timer = HeartbeatPeriod]
  ELSE [b EXCEPT !.timer = HeartbeatPeriod,
                 !.missed = IF @ < MaxCount THEN @ + 1 ELSE @]

\* A handler outside the /admin/circuit-breaker handler.
\* (counts: what Counts() returned; seen: history, the breaker's state then.)
NoAdm == [stage |-> "idle", counts |-> ZeroCounts, seen |-> "none"]
\* A handler without a streaming call.
NoStream ==
  [stage |-> "none", caller |-> "none", upstream |-> "none",
   got |-> <<>>, held |-> <<>>, put |-> <<>>]
\* The streaming call a handler has sent upstream and waits on, its caller
\* still connected.
Connecting == [NoStream EXCEPT !.stage = "connecting", !.caller = "here"]

\* ------------------------------------------- mcp-chrome: the MCP bridge
\* The calls of sendJsonRpc that are followed.
Calls == 1..MaxCalls
\* sendJsonRpc's default timeoutMs, milliseconds; the bridge's clock moves in
\* steps of half of it.
TimeoutMs == 60000
McpStep == TimeoutMs \div 2
\* payload.id when the caller gave none (or a falsy one), and the ids callers
\* give.
NoId == 0
CallerIds == {1, 2}
\* randomUUID(): an id no caller gives and no other call gets.
randomUUID(c) == Cardinality(CallerIds) + c
\* sendJsonRpc line 62: payload.id || randomUUID().
IdOf(payloadId, c) == IF payloadId # NoId THEN payloadId ELSE randomUUID(c)
Ids == CallerIds \cup {randomUUID(c) : c \in Calls}

\* No timer, or a cleared one.
NoTimer == 0 - 1
\* A call not made yet: its promise, its timer (the time since setTimeout),
\* what settled it, whether a reply with its id passed it by while it was
\* unsettled, and the status the HTTP handler answered with.
NoCall ==
  [stage |-> "none", id |-> NoId, timer |-> NoTimer, by |-> "none",
   missed |-> FALSE, status |-> 0]
\* The bridge after startMcpProcess: an empty pending map (0: no entry; else
\* the call whose resolve and reject the entry holds), nothing written to the
\* child.
NoBridge ==
  [call |-> [c \in Calls |-> NoCall], pending |-> [i \in Ids |-> 0],
   stdin |-> <<>>, last |-> "none"]

\* A promise settles once: resolve and reject of a settled promise do
\* nothing. The handlers of POST / and POST /mcp answer 200 with the result,
\* or 502.
Settle(r, by) ==
  IF r.stage # "pending" THEN r
  ELSE [r EXCEPT !.stage = IF by = "reply" THEN "resolved" ELSE "rejected",
                 !.by = by,
                 !.status = IF by = "reply" THEN StatusOK ELSE StatusBadGateway]

\* sendJsonRpc lines 61-79 for call c: the id, the timer, pending.set(id, ..)
\* and the line written to the child.
sendJsonRpc(b, c, payloadId) ==
  LET id == IdOf(payloadId, c) IN
  [b EXCEPT !.call[c] = [NoCall EXCEPT !.stage = "pending", !.id = id, !.timer = 0],
            !.pending[id] = c,
            !.stdin = Append(@, id),
            !.last = "send"]

\* The sequence q without its k-th element.
Without(q, k) == SubSeq(q, 1, k - 1) \o SubSeq(q, k + 1, Len(q))

\* startMcpProcess lines 29-45, child.stdout.on("data"): the child answers
\* the k-th line it was sent. When pending has its id, the entry's resolve
\* clears that call's timer and resolves its promise, and the entry is
\* deleted; else the line is passed over.
OnStdout(b, k) ==
  LET id == b.stdin[k]
      c == b.pending[id]
  IN  [b EXCEPT
         !.call = [d \in Calls |->
                     IF d = c THEN [Settle(b.call[d], "reply") EXCEPT !.timer = NoTimer]
                     ELSE IF b.call[d].stage = "pending" /\ b.call[d].id = id
                       THEN [b.call[d] EXCEPT !.missed = TRUE]
                     ELSE b.call[d]],
         !.pending[id] = 0,
         !.stdin = Without(b.stdin, k),
         !.last = IF c # 0 THEN "reply" ELSE "passed over"]

\* sendJsonRpc lines 66-69, the timer of call c fires: pending.delete(id) and
\* reject.
OnTimer(b, c) ==
  [b EXCEPT !.call[c] = [Settle(b.call[c], "timeout") EXCEPT !.timer = NoTimer],
            !.pending[b.call[c].id] = 0,
            !.last = "timeout"]

\* The breaker and the proxy after NewProxyClient.
BreakerInit ==
  /\ now = 0
  /\ cb = ToNewGeneration([state |-> StateClosed, generation |-> 0,
                           counts |-> ZeroCounts, expiry |-> ZeroTime], 0)
  /\ pc = [h \in Handlers |-> "idle"]
  /\ before = [h \in Handlers |-> 0]
  /\ sent = [h \in Handlers |-> 0]
  /\ out = NoOut
  /\ opened = NotOpen
  /\ streak = NoStreak
  /\ sinceClose = -1

\* The rate limiter after NewRateLimiter, no request under way.
MiddlewareInit ==
  /\ cs = 0
  /\ ips = NewRateLimiter
  /\ limiters = <<>>
  /\ mw = [h \in Handlers |-> NoMw]
  /\ resp = NoResp

\* No /agent request whose context is followed.
NoCtx == [stage |-> "idle", age |-> 0, call |-> 0, caller |-> "none"]

\* main's goroutine started, no admin request and no stream under way.
ServiceInit ==
  /\ bg = NewBg
  /\ adm = [h \in Handlers |-> NoAdm]
  /\ st = [h \in Handlers |-> NoStream]
  /\ rq = [h \in Handlers |-> NoCtx]

Init ==
  /\ BreakerInit
  /\ MiddlewareInit
  /\ cfg = [AgentBaseURL |-> StaticBaseURL]
  /\ mcp = NoBridge
  /\ hist = NewHist(0)
  /\ eureka = NoEureka
  /\ ServiceInit

\* This step is none of the middleware, the mux or the registry client.
NoMiddleware ==
  /\ resp' = NoResp
  /\ UNCHANGED <<cs, ips, limiters, mw, cfg, mcp, hist, eureka, svc>>

\* Time passes.
Tick ==
  /\ \E d \in TickSteps : now + d <= MaxTime /\ now' = now + d
  /\ out' = NoOut
  /\ NoMiddleware
  /\ UNCHANGED <<cb, pc, before, sent, opened, streak, sinceClose>>

\* ProxyJSON lines 38-49: http.NewRequest fails, the caller gets 500.
BadURL(h) ==
  /\ pc[h] = "idle"
  /\ out' = Out("BadURL", BadRequestResp, NoOutcome, "none", 0)
  /\ NoMiddleware
  /\ UNCHANGED <<now, cb, pc, before, sent, opened, streak, sinceClose>>

\* ProxyJSON lines 38-58 and 71-78: the request is built and Execute runs
\* beforeRequest; a refused call is answered 503 at once, an admitted one
\* runs the function, which sends the request (client.Do).
ProxyBegin(h) ==
  /\ pc[h] = "idle"
  /\ CurrentState(cb, now).counts.Requests < MaxPerGen
  /\ LET r == BeforeRequest(cb, now) IN
       /\ cb' = r.cb
       /\ IF r.err = ErrNone
            THEN /\ pc' = [pc EXCEPT ![h] = "inflight"]
                 /\ before' = [before EXCEPT ![h] = r.generation]
                 /\ sent' = [sent EXCEPT ![h] = ClientDo(@)]
                 /\ out' = Admitted
            ELSE /\ pc' = pc
                 /\ before' = before
                 /\ sent' = sent
                 /\ out' = Out("Begin", Response(NilResult, r.err), NoOutcome, "none", 0)
       /\ opened' = IF r.cb.state = StateOpen THEN opened ELSE NotOpen
  /\ sinceClose' = IF sinceClose >= 0 /\ sinceClose < TripThreshold
                     THEN sinceClose + 1 ELSE -1
  /\ UNCHANGED <<now, streak>>

\* A streaming proxy with no breaker in front of it.
ProxyStreamUnguarded(h) ==
  /\ pc[h] = "idle"
  /\ pc' = [pc EXCEPT ![h] = "inflight"]
  /\ before' = [before EXCEPT ![h] = CurrentState(cb, now).generation]
  /\ sent' = [sent EXCEPT ![h] = ClientDo(@)]
  /\ out' = Admitted
  /\ st' = [st EXCEPT ![h] = Connecting]
  /\ UNCHANGED <<now, cb, opened, streak, sinceClose>>

\* ProxyStream, called by the /agent/stream handler: the streaming proxy runs
\* through the same breaker as ProxyJSON and sends its one request when
\* admitted.
ProxyStreamBegin(h) ==
  /\ ProxyBegin(h)
  /\ st' = [st EXCEPT ![h] = IF pc'[h] = "inflight" THEN Connecting ELSE NoStream]

\* A ProxyJSON call made on its own, outside the mux.
Begin(h) == ProxyBegin(h) /\ NoMiddleware

\* ProxyJSON lines 58-99: client.Do returns with outcome o, Execute runs
\* afterRequest, and the answer is written to the caller. A streaming call
\* returns the same way (its body is relayed by the steps of StreamSpec).
Returned(h, o) ==
  /\ pc[h] = "inflight"
  /\ LET r == ReqResult(o)
         ok == IsSuccessful(r.err)
         c == CurrentState(cb, now)
         a == AfterRequest(cb, before[h], ok, now)
     IN
       /\ cb' = a.cb
       /\ out' = [Out("Return", Response(r.result, r.err), o, a.branch, sent[h])
                   EXCEPT !.bodies = ProxyJSONBodies(r.result, r.err)]
       /\ opened' = IF a.cb.state # StateOpen THEN NotOpen
                    ELSE IF c.state = StateClosed THEN [at |-> now, by |-> "trip"]
                    ELSE IF c.state = StateHalfOpen THEN [at |-> now, by |-> "probe"]
                    ELSE opened
       /\ streak' =
            IF ok \/ c.state # StateClosed THEN NoStreak
            ELSE IF a.branch # "failure"
              THEN [row |-> Min(streak.row + 1, TripThreshold), rec |-> 0, gen |-> 0]
            ELSE [row |-> Min(streak.row + 1, TripThreshold),
                  rec |-> IF streak.rec > 0 /\ streak.gen = c.generation
                            THEN streak.rec + 1 ELSE 1,
                  gen |-> c.generation]
       /\ sinceClose' = IF c.state = StateHalfOpen /\ a.cb.state = StateClosed
                          THEN 0 ELSE sinceClose
  /\ pc' = [pc EXCEPT ![h] = "idle"]
  /\ before' = [before EXCEPT ![h] = 0]
  /\ sent' = [sent EXCEPT ![h] = 0]
  /\ resp' = [NoResp EXCEPT !.via = IF st[h].stage = "connecting"
                                   THEN "ProxyStream" ELSE "ProxyJSON"]
  /\ UNCHANGED <<now, cs, ips, limiters, mw, cfg, mcp, hist, eureka, bg, adm>>

\* The call is over: for a streaming call, the relay of the body included
\* (StreamSpec follows it chunk by chunk).
Return(h, o) ==
  /\ Returned(h, o)
  /\ st' = [st EXCEPT ![h] = NoStream]
  /\ UNCHANGED rq

Next ==
  \/ Tick
  \/ \E h \in Handlers : BadURL(h)
  \/ \E h \in Handlers : Begin(h)
  \/ \E h \in Handlers, o \in Outcomes : Return(h, o)

Spec == Init /\ [][Next]_vars

\* ------------------------------------------- RateLimiter.Middleware
\* A hundredth of a second passes.
Elapse ==
  /\ cs < MaxCs
  /\ cs' = cs + 1
  /\ resp' = NoResp
  /\ out' = NoOut
  /\ UNCHANGED <<now, cb, pc, before, sent, cbhist, ips, limiters, mw, cfg, mcp, hist, eureka, svc>>

\* Middleware lines 93-102 for handler h, which holds the limiter at address
\* lim of heap (m: the map): limiter.Allow(), then 429, or next.ServeHTTP, the
\* mux, whose /agent handlers look the target up at the registry (its answer:
\* reply) and start the proxy call.
\* Middleware line 93, `if !limiter.Allow()`: the request ends here with 429.
RefusesNothing(ok) == FALSE
Refuses(ok) == ~ok

Serve(h, req, m, heap, lim, reply) ==
  LET a == Allow(heap[lim], Instant)
      plan == Mux(cfg, req, reply)
  IN  /\ ips' = m
      /\ limiters' = [heap EXCEPT ![lim] = a.lim]
      /\ hist' = Noted(hist, req.ip, a.ok, Instant)
      /\ mw' = [mw EXCEPT ![h] = NoMw]
      /\ UNCHANGED <<cs, cfg, mcp, eureka, bg, adm, rq>>
      /\ IF Refuses(a.ok)
           THEN /\ resp' = TooManyRequests(req)
                /\ out' = NoOut
                /\ UNCHANGED <<now, cb, pc, before, sent, cbhist, st>>
         ELSE IF plan.kind = "answer"
           THEN /\ resp' = Served(req, plan)
                /\ out' = NoOut
                /\ UNCHANGED <<now, cb, pc, before, sent, cbhist, st>>
         ELSE IF plan.via = "ProxyStream"
           THEN /\ resp' = Served(req, plan)
                /\ ProxyStreamBegin(h)
         ELSE /\ resp' = Served(req, plan)
              /\ ProxyBegin(h)
              /\ UNCHANGED st

\* Middleware lines 91-102 in one step: getIP, getLimiter, Allow and the rest.
Middleware(h, req, reply) ==
  /\ pc[h] = "idle"
  /\ mw[h] = NoMw
  /\ LET g == getLimiter(ips, limiters, req.ip)
     IN  Serve(h, req, g.ips, g.heap, g.limiter, reply)

\* Middleware lines 91-92 as a step of its own: getIP and getLimiter, which
\* holds the mutex from its entry to its return.
MiddlewareGetLimiter(h, req) ==
  /\ pc[h] = "idle"
  /\ mw[h] = NoMw
  /\ LET g == getLimiter(ips, limiters, req.ip)
     IN  /\ ips' = g.ips
         /\ limiters' = g.heap
         /\ mw' = [mw EXCEPT ![h] = [stage |-> "limiter", req |-> req, lim |-> g.limiter]]
  /\ resp' = NoResp
  /\ out' = NoOut
  /\ UNCHANGED <<now, cb, pc, before, sent, cbhist, cs, cfg, mcp, hist, eureka, svc>>

\* Middleware lines 93-102 as a step of its own, for a handler past getLimiter.
MiddlewareAllow(h, reply) ==
  /\ mw[h].stage = "limiter"
  /\ Serve(h, mw[h].req, ips, limiters, mw[h].lim, reply)

\* The registry client applies ResolveBaseURL to the registry's answer.
Resolve ==
  /\ ~eureka.done
  /\ eureka' = [eureka EXCEPT !.result = ResolveBaseURL(eureka.reply), !.done = TRUE]
  /\ resp' = NoResp
  /\ out' = NoOut
  /\ UNCHANGED <<now, cb, pc, before, sent, cbhist, cs, ips, limiters, mw, cfg, mcp, hist, svc>>

\* ---------------------------------------------------- the rate limiter alone
\* One client sends GET /health requests while time passes; the history
\* counts the requests allowed from an arbitrary instant on.
HealthRequest(ip) == Request(ip, "GET", RouteHealth)

BucketInit ==
  /\ BreakerInit
  /\ MiddlewareInit
  /\ cfg = [AgentBaseURL |-> StaticBaseURL]
  /\ mcp = NoBridge
  /\ hist \in {NewHist(start) : start \in 0..MaxCs}
  /\ eureka = NoEureka
  /\ ServiceInit

BucketNext ==
  \/ Elapse
  \/ \E h \in Handlers : Middleware(h, HealthRequest(ClientA), ReplyError)

BucketSpec == BucketInit /\ [][BucketNext]_vars

\* ------------------------------------------- concurrent requests, one instant
\* Requests of both clients run getLimiter and Allow as separate steps, in
\* any interleaving.
MayStart(ip) == ip = ClientA \/ hist.of[ip].asked < MaxOther

ConcurrentNext ==
  \/ \E h \in Handlers, ip \in Identities :
       MayStart(ip) /\ MiddlewareGetLimiter(h, HealthRequest(ip))
  \/ \E h \in Handlers : MiddlewareAllow(h, ReplyError)

ConcurrentSpec == Init /\ [][ConcurrentNext]_vars

\* ---------------------------------------------------------- the gateway
\* Requests to /health, /agent and /agent/stream pass the middleware and the
\* mux, all at one instant; the proxy calls they start return.  ClientA sends
\* any number of requests, the registry answers with an error or an instance.
Methods == {"GET", "POST"}
Routes == {RouteHealth, RouteAgent, RouteAgentStream}
\* The request looks the target up at the registry.
LooksUp(req) == req.method = "POST" /\ req.route \in {RouteAgent, RouteAgentStream}
\* Requests with the registry's answer to the lookup of each (none: an error).
Inbound(ids, replies) ==
  {<<Request(ip, method, route), reply>> :
     ip \in ids, method \in Methods, route \in Routes, reply \in replies}
InstanceA == Instance(<<"U", "P">>, <<"http://a:8000">>, <<"10.1.0.1">>, 8000)
GatewayReplies == {ReplyError, ReplyOK(<<InstanceA>>)}
GatewayInbound ==
  {i \in Inbound(Identities, GatewayReplies) : LooksUp(i[1]) \/ i[2] = ReplyError}

\* The tokens the identity's bucket holds (no time passes in these runs).
TokensLeft(ip) == IF ips[ip] = 0 THEN Burst ELSE limiters[ips[ip]].tokens
\* ClientA is a flooder: it sends GET /health until its bucket holds at most
\* Spare tokens, and any request from then on; the other clients send a few
\* requests of any kind at any time.
MayArrive(req) ==
  /\ MayStart(req.ip)
  /\ (req.ip = ClientA /\ TokensLeft(ClientA) > Spare) => req = HealthRequest(ClientA)

GatewayNext ==
  \/ \E h \in Handlers, i \in GatewayInbound :
       MayArrive(i[1]) /\ Middleware(h, i[1], i[2])
  \/ \E h \in Handlers, o \in Outcomes : Return(h, o)

GatewaySpec == Init /\ [][GatewayNext]_vars

\* ------------------------------------------------------------- routing
\* A few POST requests to /agent and /agent/stream, with and without a static
\* base URL, the registry answering in every way it can.
RoutingReplies ==
  {ReplyError, ReplyNot200, ReplyBadJSON} \cup
  {ReplyOK(l) : l \in {<<>>} \cup {<<i>> : i \in InstanceSet}}
RoutingInbound ==
  {i \in Inbound({ClientB}, RoutingReplies) : LooksUp(i[1])}

RoutingInit ==
  /\ BreakerInit
  /\ MiddlewareInit
  /\ cfg \in Configs
  /\ mcp = NoBridge
  /\ hist = NewHist(0)
  /\ eureka = NoEureka
  /\ ServiceInit

\* The client sends at most MaxRouted requests.
MaxRouted == MaxPerGen

RoutingNext ==
  \/ \E h \in Handlers, i \in RoutingInbound :
       hist.of[i[1].ip].asked < MaxRouted /\ Middleware(h, i[1], i[2])
  \/ \E h \in Handlers, o \in Outcomes : Return(h, o)

RoutingSpec == RoutingInit /\ [][RoutingNext]_vars

\* ------------------------------------------------------ ResolveBaseURL alone
\* The registry's answer is drawn at the start; the client resolves it.
RegistryReplies ==
  {ReplyError, ReplyNot200, ReplyBadJSON} \cup {ReplyOK(l) : l \in InstanceLists}

ResolveInit ==
  /\ BreakerInit
  /\ MiddlewareInit
  /\ cfg = [AgentBaseURL |-> StaticBaseURL]
  /\ mcp = NoBridge
  /\ hist = NewHist(0)
  /\ eureka \in {[reply |-> r, result |-> NoResult, done |-> FALSE] : r \in RegistryReplies}
  /\ ServiceInit

ResolveNext == Resolve

ResolveSpec == ResolveInit /\ [][ResolveNext]_vars

TypeOK ==
  /\ now \in 0..MaxTime
  /\ cb.state \in {StateClosed, StateHalfOpen, StateOpen}
  /\ \A h \in Handlers : pc[h] \in {"idle", "inflight"}

\* ------------------------------------------- /admin/circuit-breaker
\* The handler on its own (the middleware in front of it is that of every
\* route).  handlers.go 47-48: Counts().
AdminCounts(h) ==
  /\ pc[h] = "idle" /\ mw[h].stage = "idle" /\ adm[h].stage = "idle"
  /\ adm' = [adm EXCEPT ![h] = [stage |-> "counts", counts |-> Counts(cb),
                                seen |-> cb.state]]
  /\ resp' = [NoResp EXCEPT !.op = "AdminCounts"]
  /\ out' = NoOut
  /\ UNCHANGED <<now, cb, pc, before, sent, cbhist, cs, ips, limiters, mw, cfg, mcp,
                 hist, eureka, bg, st, rq>>

\* handlers.go 49-59 for a handler that has read the counters: State(), and
\* the JSON answer with the state just read and the counters read before.
AdminState(h) ==
  /\ adm[h].stage = "counts"
  /\ LET s == State(cb, now) IN
       /\ cb' = s.cb
       /\ opened' = IF s.cb.state = StateOpen THEN opened ELSE NotOpen
       /\ resp' = [NoResp EXCEPT !.op = "Admin", !.allowed = TRUE,
                                 !.status = StatusOK, !.body = "snapshot",
                                 !.ctype = ApplicationJSON,
                                 !.snapshot = [state |-> s.state,
                                               counts |-> adm[h].counts]]
  /\ adm' = [adm EXCEPT ![h] = NoAdm]
  /\ out' = NoOut
  /\ UNCHANGED <<now, pc, before, sent, streak, sinceClose, cs, ips, limiters,
                 mw, cfg, mcp, hist, eureka, bg, st, rq>>

\* Proxied calls while time passes, and GET /admin/circuit-breaker requests.
AdminNext ==
  \/ Tick
  \/ \E h \in Handlers : adm[h].stage = "idle" /\ Begin(h)
  \/ \E h \in Handlers, o \in Outcomes : Return(h, o)
  \/ \E h \in Handlers : AdminCounts(h)
  \/ \E h \in Handlers : AdminState(h)

AdminSpec == Init /\ [][AdminNext]_vars

\* ------------------------------------------- main: the goroutine's steps
\* This step is a step of the goroutine or of the registry.
Background ==
  /\ resp' = NoResp
  /\ out' = NoOut
  /\ UNCHANGED <<now, cb, pc, before, sent, cbhist, cs, ips, limiters, mw, cfg, mcp,
                 hist, eureka, adm, st, rq>>
Counted(n) == IF n < MaxCount THEN n + 1 ELSE n

\* main lines 25-33: one Register call and what follows it.
BgRegister ==
  /\ bg.running /\ bg.pc = "register"
  /\ bg' = [OnRegister(bg, Register(bg.registry)) EXCEPT
              !.registers = Counted(@), !.step = "Register"]
  /\ Background
\* time.Sleep(5 s) returns.
BgSleep ==
  /\ bg.running /\ bg.pc = "sleep" /\ bg.timer = 0
  /\ bg' = [bg EXCEPT !.pc = "register", !.step = "Sleep"]
  /\ Background
\* main lines 38-44: the ticker fires, one Heartbeat call.
BgHeartbeat ==
  /\ bg.running /\ bg.pc = "ticker" /\ bg.timer = 0
  /\ bg' = [OnHeartbeat(bg, Heartbeat(bg.registry)) EXCEPT
              !.beats = Counted(@), !.step = "Heartbeat"]
  /\ Background
\* TimerStep seconds pass for the goroutine.
BgPass ==
  /\ bg.running /\ bg.timer > 0
  /\ bg' = [bg EXCEPT !.timer = @ - TimerStep, !.step = "Pass"]
  /\ Background
\* The registry starts or stops answering.
RegistryChange ==
  /\ bg' = [bg EXCEPT !.registry = IF @ = "up" THEN "down" ELSE "up",
                      !.step = "Registry"]
  /\ Background

\* ------------------------------------------------- registration alone
\* The goroutine, the registry, and a client's GET /health requests.
RegistrationInit ==
  /\ BreakerInit
  /\ MiddlewareInit
  /\ cfg = [AgentBaseURL |-> StaticBaseURL]
  /\ mcp = NoBridge
  /\ hist = NewHist(0)
  /\ eureka = NoEureka
  /\ bg \in {[NewBg EXCEPT !.registry = r] : r \in {"down", "up"}}
  /\ adm = [h \in Handlers |-> NoAdm]
  /\ st = [h \in Handlers |-> NoStream]
  /\ rq = [h \in Handlers |-> NoCtx]

BgNext == BgRegister \/ BgSleep \/ BgHeartbeat \/ BgPass

RegistrationNext ==
  \/ BgRegister
  \/ BgSleep
  \/ BgHeartbeat
  \/ BgPass
  \/ RegistryChange
  \/ \E h \in Handlers :
       bg.running /\ MayStart(ClientB) /\ Middleware(h, HealthRequest(ClientB), ReplyError)

\* The Go scheduler runs the goroutine whenever it can take a step, and its
\* timers fire.
RegistrationSpec ==
  RegistrationInit /\ [][RegistrationNext]_vars /\ WF_vars(BgNext)

\* ------------------------------------------- ProxyClient.ProxyStream
\* The streaming proxy behind /agent/stream (handlers.go 247). Its code is
\* not part of the sources at hand; its steps follow the contract of the
\* streaming proxy: one attempt through the breaker, the upstream's status
\* and headers forwarded at once, then each chunk copied to the caller as
\* it arrives and flushed, the upstream canceled when the caller
\* disconnects and the response ended when the upstream drops.
\* The k-th chunk the upstream emits.
Chunk(k) == k
\* Read: the next chunk of the upstream's body is received and held.
ReadChunk(s) ==
  [s EXCEPT !.got = Append(@, Chunk(Len(@) + 1)),
            !.held = <<Chunk(Len(s.got) + 1)>>]
\* The held chunk is kept back for a later write.
WriteBatched(s) == [s EXCEPT !.held = <<>>]
\* Write and Flush of the held chunk: the caller has it.
WriteFlush(s) == [s EXCEPT !.put = @ \o s.held, !.held = <<>>]
\* The proxy leaves a stream whose caller is gone as it is.
CloseNever(s) == s
\* The stream is over: the upstream body is closed and the handler returns.
Close(s) == NoStream
\* Handler h runs a streaming call.
Open(h) == st[h].stage \in {"connecting", "copying"}

\* A step of a streaming call that touches neither the breaker nor the
\* middleware; `how` tells how a stream that ends in this step ended.
Relay(h, s, how) ==
  /\ st' = [st EXCEPT ![h] = s]
  /\ resp' = IF how = "none" THEN NoResp
             ELSE [NoResp EXCEPT !.op = "ProxyStream", !.body = how]
  /\ out' = NoOut
  /\ UNCHANGED <<now, cb, pc, before, sent, cbhist, cs, ips, limiters, mw, cfg, mcp,
                 hist, eureka, bg, adm, rq>>

\* The /agent/stream handler calls ProxyStream (one streaming call is
\* followed at a time).
StreamStart(h) ==
  /\ \A k \in Handlers : ~Open(k)
  /\ ProxyStreamBegin(h)
  /\ resp' = NoResp
  /\ UNCHANGED <<cs, ips, limiters, mw, cfg, mcp, hist, eureka, bg, adm, rq>>

\* client.Do returns: a failure is answered like ProxyJSON's, a response
\* starts the relay. A canceled request returns an error.
StreamHeaders(h, o) ==
  /\ st[h].stage = "connecting"
  /\ st[h].caller = "gone" => o = TransportError
  /\ Returned(h, o)
  /\ st' = [st EXCEPT ![h] =
              IF o = TransportError THEN Close(@)
                ELSE [@ EXCEPT !.stage = "copying", !.upstream = "open"]]
  /\ UNCHANGED rq

\* The upstream has sent one more chunk and the proxy reads it.
StreamRead(h) ==
  /\ st[h].stage = "copying" /\ st[h].upstream = "open"
  /\ st[h].held = <<>>
  /\ Len(st[h].got) < MaxChunks
  /\ Relay(h, ReadChunk(st[h]), "none")

\* The proxy writes the chunk it holds and flushes; the write fails when the
\* caller is gone, and the proxy cancels the upstream request.
StreamWrite(h) ==
  /\ st[h].stage = "copying"
  /\ st[h].held # <<>>
  /\ IF st[h].caller = "here" THEN Relay(h, WriteFlush(st[h]), "none")
     ELSE Relay(h, Close(st[h]), "canceled")

\* The read returns io.EOF or an error: the upstream ended or dropped, and
\* the response to the caller ends.
StreamEnd(h) ==
  /\ st[h].stage = "copying"
  /\ st[h].held = <<>>
  /\ st[h].upstream \in {"eof", "dropped"}
  /\ Relay(h, Close(st[h]), st[h].upstream)

\* The request's context is canceled (the caller is gone): the upstream
\* request is canceled and its connection released.
StreamCancel(h) ==
  /\ st[h].stage = "copying"
  /\ st[h].held = <<>>
  /\ st[h].caller = "gone"
  /\ Relay(h, Close(st[h]), "canceled")

\* The caller disconnects.
CallerGone(h) ==
  /\ Open(h)
  /\ st[h].caller = "here"
  /\ Relay(h, [st[h] EXCEPT !.caller = "gone"], "none")

\* The upstream ends its stream (how = "eof"), or its connection drops.
UpstreamGone(h, how) ==
  /\ st[h].stage = "copying" /\ st[h].upstream = "open"
  /\ Relay(h, [st[h] EXCEPT !.upstream = how], "none")

\* The steps of the proxy itself for handler h's stream, which the runtime
\* schedules: the pending write, the end of the relay, and the return of a
\* canceled request.
StreamProxy(h) ==
  \/ StreamWrite(h)
  \/ StreamEnd(h)
  \/ StreamCancel(h)
  \/ st[h].caller = "gone" /\ StreamHeaders(h, TransportError)

StreamNext ==
  \/ \E h \in Handlers : StreamStart(h)
  \/ \E h \in Handlers, o \in Outcomes : StreamHeaders(h, o)
  \/ \E h \in Handlers : StreamRead(h)
  \/ \E h \in Handlers : StreamWrite(h)
  \/ \E h \in Handlers : StreamEnd(h)
  \/ \E h \in Handlers : StreamCancel(h)
  \/ \E h \in Handlers : CallerGone(h)
  \/ \E h \in Handlers, how \in {"eof", "dropped"} : UpstreamGone(h, how)

StreamSpec ==
  Init /\ [][StreamNext]_vars /\ \A h \in Handlers : WF_vars(StreamProxy(h))

\* ------------------------------------------------------------- getIP
\* A header value and a peer address are sequences of pieces: an address,
\* a port, and "," " " ":" as pieces of their own.
Comma == ","
Space == " "
Colon == ":"
\* r.Header.Get: the value of the header, "" when the request has none.
HeaderGet(hdr) == IF hdr.present THEN hdr.value ELSE EmptyString
\* strings.Split(s, ",")[0]: what stands before the first comma.
RECURSIVE FirstField(_)
FirstField(s) ==
  IF s = <<>> \/ Head(s) = Comma THEN <<>>
  ELSE <<Head(s)>> \o FirstField(Tail(s))
\* The field after the last comma.
RECURSIVE LastField(_)
LastField(s) ==
  IF \E i \in 1..Len(s) : s[i] = Comma THEN LastField(Tail(s)) ELSE s
\* strings.TrimSpace.
RECURSIVE TrimSpace(_)
TrimSpace(s) ==
  IF s # <<>> /\ Head(s) = Space THEN TrimSpace(Tail(s))
  ELSE IF s # <<>> /\ s[Len(s)] = Space THEN TrimSpace(SubSeq(s, 1, Len(s) - 1))
  ELSE s
\* net.SplitHostPort: the host before the last colon, an error without one.
SplitHostPort(addr) ==
  IF \E i \in 1..Len(addr) : addr[i] = Colon
    THEN LET i == CHOOSE k \in 1..Len(addr) :
                    addr[k] = Colon /\ \A j \in (k + 1)..Len(addr) : addr[j] # Colon
         IN  [host |-> SubSeq(addr, 1, i - 1), err |-> ErrNone]
    ELSE [host |-> EmptyString, err |-> "missing port in address"]

\* getIP taking the right-most entry of the header.
getIPLast(hdr, remote) ==
  LET xfwd == HeaderGet(hdr) IN
  IF xfwd # EmptyString THEN TrimSpace(LastField(xfwd))
  ELSE LET hp == SplitHostPort(remote) IN
       IF hp.err # ErrNone THEN remote ELSE hp.host
\* getIP, part_005 105-118.
getIP(hdr, remote) ==
  LET xfwd == HeaderGet(hdr) IN
  IF xfwd # EmptyString THEN TrimSpace(FirstField(xfwd))
  ELSE LET hp == SplitHostPort(remote) IN
       IF hp.err # ErrNone THEN remote ELSE hp.host

\* The requests of these runs carry their header and their peer address;
\* their identity is one address.
NoHeader == [present |-> FALSE, value |-> EmptyString]
Header(v) == [present |-> TRUE, value |-> v]
Headers ==
  {NoHeader, Header(EmptyString)}
    \cup {Header(<<a>>) : a \in Identities}
    \cup {Header(<<a, Comma, b>>) : a, b \in Identities}
    \cup {Header(<<a, Space, Comma, Space, b>>) : a, b \in Identities}
PeerPort == "51234"
Peers == {<<a, Colon, PeerPort>> : a \in Identities} \cup {<<ClientA>>}
From(hdr, remote) ==
  Request(getIP(hdr, remote)[1], "GET", RouteHealth)
    @@ [header |-> hdr, remote |-> remote]

\* A request with header hdr arrives from the peer `remote` and passes the
\* middleware; each identity sends a few.
Identify(h, hdr, remote) ==
  /\ hist.of[From(hdr, remote).ip].asked <= MaxOther
  /\ Middleware(h, From(hdr, remote), ReplyError)

IdentityNext ==
  \E h \in Handlers, hdr \in Headers, remote \in Peers : Identify(h, hdr, remote)

IdentitySpec == Init /\ [][IdentityNext]_vars

\* ----------------------------------------------- /api-docs/aggregate
\* What httpClient.Do and the decoder make of the fetch of the agent's
\* OpenAPI document.
FetchOutcomes == {"bad url", "error", "not 200", "bad json", "ok"}
PathOpenAPI == <<"/", "openapi.json">>
RouteAggregate == "/api-docs/aggregate"
\* handlers.go 118-121 and 140-144: the entries of the answer.
OwnEntry == [name |-> "api-gateway", url |-> "/openapi.json"]
AgentEntry == [name |-> "agent-service", url |-> "/api-docs/agent/openapi.json"]

\* handlers.go 134-147: httpClient.Do gave a response unless the request
\* could not be built or sent; resp.Body.Close() is inside the branch of a
\* 200 answer, after the decoder, whatever the decoder said.
FetchedBodies(fetched, fetch) ==
  IF ~fetched \/ fetch \in {"bad url", "error"} THEN NoBodies
  ELSE OneBody(fetch # "not 200")

\* The handler with the entry added whenever the agent answered.
AggregateHandlerAnyStatus(c, reply, fetch) ==
  LET res == ResolveBaseURL(reply)
      agentBase == AgentBase(c, res)
      fetched == agentBase # EmptyString
      specs == IF fetched /\ fetch \in {"ok", "not 200"}
                 THEN <<OwnEntry, AgentEntry>> ELSE <<OwnEntry>>
  IN  [services |-> specs, count |-> Len(specs), status |-> StatusOK,
       resolved |-> res, fetches |-> IF fetched THEN 1 ELSE 0,
       bodies |-> FetchedBodies(fetched, fetch),
       target |-> IF fetched THEN TrimRight(agentBase, "/") \o PathOpenAPI
                  ELSE EmptyString]

\* handlers.go 103-157: the gateway's entry, the agent's entry when its
\* document could be fetched and decoded, and the number of entries.
AggregateHandler(c, reply, fetch) ==
  LET res == ResolveBaseURL(reply)
      agentBase == AgentBase(c, res)
      fetched == agentBase # EmptyString
      specs == IF fetched /\ fetch = "ok"
                 THEN <<OwnEntry, AgentEntry>> ELSE <<OwnEntry>>
  IN  [services |-> specs, count |-> Len(specs), status |-> StatusOK,
       resolved |-> res, fetches |-> IF fetched THEN 1 ELSE 0,
       bodies |-> FetchedBodies(fetched, fetch),
       target |-> IF fetched THEN TrimRight(agentBase, "/") \o PathOpenAPI
                  ELSE EmptyString]

\* A request for /api-docs/aggregate is served, whatever its method: the
\* registry answers the lookup with `reply` and the fetch ends as `fetch`.
Aggregate(method, reply, fetch) ==
  /\ LET a == AggregateHandler(cfg, reply, fetch) IN
       /\ resp' = [NoResp EXCEPT !.op = "Aggregate", !.allowed = TRUE,
                                 !.req = Request(ClientB, method, RouteAggregate),
                                 !.status = a.status, !.body = "services",
                                 !.ctype = ApplicationJSON, !.lookups = 1,
                                 !.resolved = a.resolved, !.target = a.target,
                                 !.services = a.services, !.count = a.count]
       /\ out' = [NoOut EXCEPT !.op = "Aggregate", !.msg = fetch,
                               !.sent = a.fetches, !.bodies = a.bodies]
  /\ UNCHANGED <<now, cb, pc, before, sent, cbhist, cs, ips, limiters, mw, cfg, mcp,
                 hist, eureka, svc>>

AggregateNext ==
  \E method \in Methods, reply \in RoutingReplies, fetch \in FetchOutcomes :
    Aggregate(method, reply, fetch)

AggregateSpec == RoutingInit /\ [][AggregateNext]_vars

\* ------------------------------------- /api-docs/agent/openapi.json
RouteAgentOpenAPI == "/api-docs/agent/openapi.json"
\* The status the agent answers with when it is not 200: one of the
\* upstream's statuses below 500.
StatusNotOK == CHOOSE s \in UpstreamStatuses : s # StatusOK /\ s < 500
BodyAgentUnavailable == "agent service not available"
\* handlers.go 160-196: the agent's document is fetched and copied to the
\* caller with the agent's status; 503 without a target, 500 when the
\* request cannot be built, 502 when it cannot be sent. The body of every
\* response obtained is closed by the deferred Close.
OpenAPIHandler(c, reply, fetch) ==
  LET res == ResolveBaseURL(reply)
      base == AgentBase(c, res)
      sends == base # EmptyString /\ fetch # "bad url"
      status == IF base = EmptyString THEN StatusServiceUnavailable
                ELSE IF fetch = "bad url" THEN StatusInternalServerError
                ELSE IF fetch = "error" THEN StatusBadGateway
                ELSE IF fetch = "not 200" THEN StatusNotOK
                ELSE StatusOK
  IN  [status |-> status, resolved |-> res,
       body |-> IF base = EmptyString THEN BodyAgentUnavailable
                ELSE IF fetch \in {"bad url", "error"} THEN "error"
                ELSE "openapi",
       fetches |-> IF sends THEN 1 ELSE 0,
       bodies |-> IF sends /\ fetch # "error" THEN OneBody(TRUE) ELSE NoBodies,
       target |-> IF base # EmptyString THEN TrimRight(base, "/") \o PathOpenAPI
                  ELSE EmptyString]

\* A request for /api-docs/agent/openapi.json is served, whatever its method:
\* the registry answers the lookup with `reply`, the fetch ends as `fetch`.
OpenAPI(method, reply, fetch) ==
  /\ LET a == OpenAPIHandler(cfg, reply, fetch) IN
       /\ resp' = [NoResp EXCEPT !.op = "OpenAPI", !.allowed = TRUE,
                                 !.req = Request(ClientB, method, RouteAgentOpenAPI),
                                 !.status = a.status, !.body = a.body,
                                 !.lookups = 1,
                                 !.resolved = a.resolved, !.target = a.target]
       /\ out' = [NoOut EXCEPT !.op = "OpenAPI", !.msg = fetch,
                               !.sent = a.fetches, !.bodies = a.bodies]
  /\ UNCHANGED <<now, cb, pc, before, sent, cbhist, cs, ips, limiters, mw, cfg, mcp,
                 hist, eureka, svc>>

\* No ProxyJSON call is in flight.
Quiet == \A h \in Handlers : pc[h] = "idle"
\* The handlers that obtain upstream responses: ProxyJSON behind its breaker
\* and, between its calls, the two handlers of the agent's OpenAPI document.
BodyNext ==
  \/ \E h \in Handlers : Begin(h)
  \/ \E h \in Handlers, o \in Outcomes : Return(h, o)
  \/ \E reply \in GatewayReplies, fetch \in FetchOutcomes :
       Quiet /\ Aggregate("GET", reply, fetch)
  \/ \E reply \in GatewayReplies, fetch \in FetchOutcomes :
       Quiet /\ OpenAPI("GET", reply, fetch)

BodySpec == RoutingInit /\ [][BodyNext]_vars

\* ---------------------------------- the /agent handler and its contexts
\* config: REQUEST_TIMEOUT, seconds. It bounds ctx (handlers.go 211), and
\* each call of the two http.Clients (main 19-20).
RequestTimeout == 120
\* Time passes in steps of half the timeout.
CtxStep == RequestTimeout \div 2

\* The handler has an outbound call in flight.
InFlight(r) == r.stage \in {"lookup", "proxy"}
\* handlers.go 211: ctx, derived from r.Context() with the timeout, is done.
CtxDone(r) == r.caller = "gone" \/ r.age >= RequestTimeout
\* http.Client.Timeout of the call in flight has run out.
ClientTimedOut(r) == r.call >= RequestTimeout
\* The upstream request carries no context of the caller.
ProxyCtxNever(r) == FALSE
\* proxy.go 50, req.WithContext(r.Context()): the context the upstream
\* request carries is done.
ProxyCtxDone(r) == r.caller = "gone"
\* The outbound call in flight is being canceled: it cannot last.
Canceled(r) ==
  \/ r.stage = "lookup" /\ (CtxDone(r) \/ ClientTimedOut(r))
  \/ r.stage = "proxy" /\ (ProxyCtxDone(r) \/ ClientTimedOut(r))

\* A step that touches only the contexts.
CtxOnly ==
  /\ resp' = NoResp
  /\ out' = NoOut
  /\ UNCHANGED <<now, cb, pc, before, sent, cbhist, cs, ips, limiters, mw, cfg, mcp,
                 hist, eureka, bg, adm, st>>

\* handlers.go 205-213: POST /agent arrives, ctx is derived and
\* ResolveBaseURL sends its request to the registry.
CtxArrive(h) ==
  /\ rq[h].stage = "idle" /\ pc[h] = "idle"
  /\ rq' = [rq EXCEPT ![h] = [stage |-> "lookup", age |-> 0, call |-> 0,
                               caller |-> "here"]]
  /\ CtxOnly

\* handlers.go 213-224: ResolveBaseURL returns (canceled or not), base is
\* the resolved or the static URL, and ProxyJSON begins its call.
CtxDispatch(h) ==
  /\ rq[h].stage = "lookup"
  /\ ProxyBegin(h)
  /\ rq' = [rq EXCEPT ![h] = IF pc'[h] = "inflight"
                               THEN [@ EXCEPT !.stage = "proxy", !.call = 0]
                               ELSE NoCtx]
  /\ resp' = NoResp
  /\ UNCHANGED <<cs, ips, limiters, mw, cfg, mcp, hist, eureka, bg, adm, st>>

\* proxy.go 58-99: client.Do returns, with an error when the call was
\* canceled; the body is closed (line 94) and the handler returns.
CtxReturn(h, o) ==
  /\ rq[h].stage = "proxy"
  /\ Canceled(rq[h]) => o = TransportError
  /\ Returned(h, o)
  /\ rq' = [rq EXCEPT ![h] = NoCtx]
  /\ UNCHANGED st

\* The caller disconnects: r.Context() is canceled.
CtxCallerGone(h) ==
  /\ InFlight(rq[h])
  /\ rq[h].caller = "here"
  /\ rq' = [rq EXCEPT ![h].caller = "gone"]
  /\ CtxOnly

\* Time passes, unless a call in flight is being canceled.
CtxPass ==
  /\ \E h \in Handlers : InFlight(rq[h])
  /\ \A h \in Handlers : ~Canceled(rq[h])
  /\ rq' = [h \in Handlers |->
              IF InFlight(rq[h])
                THEN [rq[h] EXCEPT !.age = @ + CtxStep, !.call = @ + CtxStep]
                ELSE rq[h]]
  /\ CtxOnly

DeadlineNext ==
  \/ \E h \in Handlers : CtxArrive(h)
  \/ \E h \in Handlers : CtxDispatch(h)
  \/ \E h \in Handlers, o \in Outcomes : CtxReturn(h, o)
  \/ \E h \in Handlers : CtxCallerGone(h)
  \/ CtxPass

DeadlineSpec == Init /\ [][DeadlineNext]_vars

\* The breaker's clock advances between the requests: their calls are
\* short, none is in flight across a step of the clock.
CtxTick ==
  /\ \A h \in Handlers : ~InFlight(rq[h])
  /\ \E d \in TickSteps : now + d <= MaxTime /\ now' = now + d
  /\ resp' = NoResp
  /\ out' = NoOut
  /\ UNCHANGED <<cb, pc, before, sent, cbhist, cs, ips, limiters, mw, cfg, mcp,
                 hist, eureka, svc>>

\* A healthy upstream and impatient callers: every call is answered 200
\* unless it is canceled first.
CancelNext ==
  \/ CtxTick
  \/ \E h \in Handlers : CtxArrive(h)
  \/ \E h \in Handlers : CtxDispatch(h)
  \/ \E h \in Handlers : CtxCallerGone(h)
  \/ \E h \in Handlers :
       CtxReturn(h, IF Canceled(rq[h]) THEN TransportError ELSE StatusOK)

CancelSpec == Init /\ [][CancelNext]_vars

\* ------------------------------------------------------------ the claims
\* The breaker's cooldown in seconds, as the claims state it.
CooldownSeconds == 30
\* The number of failures in a row the claims state.
FailuresToOpen == 3

\* This step began a ProxyJSON call.
BeginStep == out'.op = "Begin"
\* This step began a call and refused it with 503 and `msg`, without any
\* upstream request.
RejectedStep(msg) ==
  /\ BeginStep
  /\ pc' = pc
  /\ sent' = sent
  /\ out'.status = 503
  /\ out'.msg = msg
  /\ out'.sent = 0
  /\ out'.outcome = NoOutcome
\* This step began a call and admitted it: its one request went upstream.
AdmittedStep ==
  /\ BeginStep
  /\ \E h \in Handlers :
       /\ pc[h] = "idle"
       /\ pc'[h] = "inflight"
       /\ sent'[h] = 1
       /\ before'[h] = cb'.generation
\* Handler h's call returned in this step.
ReturnStep(h) == pc[h] = "inflight" /\ pc'[h] = "idle" /\ out'.op = "Return"
\* The upstream answered with a status (a response, not a transport error).
IsStatus(o) == o # TransportError /\ o # NoOutcome
\* The upstream failed the call: a transport error or a status >= 500.
IsFailure(o) == o = TransportError \/ (IsStatus(o) /\ o >= 500)
\* Handler h's call in flight is the half-open probe.
IsProbe(h) ==
  pc[h] = "inflight" /\ cb.state = StateHalfOpen /\ before[h] = cb.generation
\* An OPEN breaker within its cooldown (the call exactly at its end included).
InCooldown == cb.state = StateOpen /\ now <= opened.at + CooldownSeconds

\* C1 as stated: starting from CLOSED, the third failure in a row opens the
\* breaker, and a call begun before the cooldown has elapsed is refused
\* without an upstream request.
C1_AsStated ==
  [][ /\ (out'.op = "Return" /\ IsFailure(out'.outcome) /\ streak'.row = FailuresToOpen)
           => cb'.state = StateOpen
      /\ (InCooldown /\ opened.by = "trip" /\ BeginStep) => RejectedStep(MsgOpen)
    ]_vars

\* C1 amended: the third failure in a row opens the breaker when the three
\* failures were recorded in one generation of the CLOSED breaker (no 10 s
\* interval boundary between them); a call begun before the cooldown has
\* elapsed is then refused without an upstream request.
C1_ThreeFailuresOpen ==
  [][ /\ (out'.op = "Return" /\ IsFailure(out'.outcome) /\ streak'.rec = FailuresToOpen)
           => (cb'.state = StateOpen /\ opened' = [at |-> now, by |-> "trip"])
      /\ (InCooldown /\ opened.by = "trip" /\ BeginStep) => RejectedStep(MsgOpen)
    ]_vars

\* C1 witness: three failures of one generation opened the breaker and a
\* fourth call, 30 s later, has just been refused.
C1_Witness ==
  /\ streak.rec = FailuresToOpen
  /\ cb.state = StateOpen /\ opened.by = "trip"
  /\ now = opened.at + CooldownSeconds
  /\ out.op = "Begin" /\ out.status = 503

\* C2: while the breaker is OPEN and its cooldown has not elapsed, every
\* ProxyJSON call is answered 503 with the 'open' message and makes no
\* upstream request.
C2_OpenRejects ==
  [][ (cb.state = StateOpen /\ ~(cb.expiry < now) /\ BeginStep)
        => (RejectedStep(MsgOpen) /\ cb' = cb) ]_vars

C2_Witness ==
  /\ cb.state = StateOpen
  /\ out.op = "Begin" /\ out.status = 503 /\ out.msg = MsgOpen /\ out.sent = 0

\* C3: an OPEN breaker admits no call until 30 s have passed since it entered
\* OPEN; the first call after that is admitted, with the phase HALF_OPEN when
\* its request goes upstream.
C3_CooldownThenProbe ==
  [][ /\ (InCooldown /\ BeginStep) => (RejectedStep(MsgOpen) /\ cb'.state = StateOpen)
      /\ (cb.state = StateOpen /\ now > opened.at + CooldownSeconds /\ BeginStep)
           => (AdmittedStep /\ cb'.state = StateHalfOpen)
    ]_vars

C3_Witness ==
  /\ cb.state = StateHalfOpen
  /\ out = Admitted
  /\ \E h \in Handlers : IsProbe(h) /\ sent[h] = 1

\* C4: in HALF_OPEN at most one probe is in flight, whatever the interleaving,
\* and every call begun while the probe is in flight is answered 503 with the
\* half-open-limit message and makes no upstream request.
C4_OneProbe ==
  /\ [](Cardinality({h \in Handlers : IsProbe(h)}) <= 1)
  /\ [][ ((\E h \in Handlers : IsProbe(h)) /\ BeginStep)
           => (RejectedStep(MsgHalfOpenLimit) /\ cb' = cb) ]_vars

C4_Witness ==
  /\ \E h \in Handlers : IsProbe(h)
  /\ out.op = "Begin" /\ out.status = 503 /\ out.msg = MsgHalfOpenLimit

\* C5: when the HALF_OPEN probe gets a status below 500 the breaker becomes
\* CLOSED with all counters zero, and the next three calls are all admitted.
C5_ProbeSuccessCloses ==
  [][ /\ \A h \in Handlers :
           (IsProbe(h) /\ ReturnStep(h) /\ IsStatus(out'.outcome) /\ out'.outcome < 500)
             => (cb'.state = StateClosed /\ cb'.counts = ZeroCounts /\ sinceClose' = 0)
      /\ (sinceClose \in 0..(FailuresToOpen - 1) /\ BeginStep)
           => (AdmittedStep /\ cb'.state = StateClosed)
    ]_vars

C5_Witness ==
  /\ sinceClose = FailuresToOpen
  /\ out = Admitted
  /\ cb.state = StateClosed

\* C6: when the HALF_OPEN probe fails the breaker returns to OPEN and the
\* cooldown restarts at that failure: no call is admitted until 30 s later.
C6_ProbeFailureReopens ==
  [][ /\ \A h \in Handlers :
           (IsProbe(h) /\ ReturnStep(h) /\ IsFailure(out'.outcome))
             => (cb'.state = StateOpen /\ opened' = [at |-> now, by |-> "probe"])
      /\ (InCooldown /\ opened.by = "probe" /\ BeginStep)
           => (RejectedStep(MsgOpen) /\ cb'.state = StateOpen /\ opened' = opened)
    ]_vars

C6_Witness ==
  /\ cb.state = StateOpen /\ opened.by = "probe"
  /\ now = opened.at + CooldownSeconds
  /\ out.op = "Begin" /\ out.status = 503 /\ out.msg = MsgOpen


\* The call returning in this step was admitted in the generation the breaker
\* is still in: no phase change and no closed-interval boundary since.
SameGeneration(h) ==
  /\ before[h] = cb.generation
  /\ ~(cb.state = StateClosed /\ cb.expiry < now)

\* C7 as stated: for every admitted call that gets an upstream response, a
\* status >= 500 increments the total and consecutive failure counters, and a
\* status below 500 increments the success counters, zeroes the consecutive
\* failures and increments no failure counter.
C7_AsStated ==
  [][ \A h \in Handlers :
        (ReturnStep(h) /\ IsStatus(out'.outcome)) =>
          IF out'.outcome >= 500
            THEN /\ cb'.counts.TotalFailures = cb.counts.TotalFailures + 1
                 /\ cb'.counts.ConsecutiveFailures = cb.counts.ConsecutiveFailures + 1
            ELSE /\ cb'.counts.TotalSuccesses = cb.counts.TotalSuccesses + 1
                 /\ cb'.counts.ConsecutiveSuccesses = cb.counts.ConsecutiveSuccesses + 1
                 /\ cb'.counts.ConsecutiveFailures = 0
                 /\ cb'.counts.TotalFailures = cb.counts.TotalFailures
    ]_vars

\* C7 amended: an upstream response is classified by its status alone, >= 500
\* a failure and anything below a success, and it is recorded when the call
\* returns in the generation that admitted it.  A recorded failure on a CLOSED
\* breaker increments the total and consecutive failure counters, unless it is
\* the third in a row, which opens the breaker and clears the counters; on a
\* HALF_OPEN breaker it reopens it.  A recorded success increments the success
\* counters of a CLOSED breaker and zeroes the consecutive failures (and closes
\* a HALF_OPEN breaker, clearing the counters); it never increments a failure
\* counter.  The outcome of a call of an earlier generation is dropped and
\* increments no counter.
C7_StatusClassifies ==
  [][ \A h \in Handlers :
        (ReturnStep(h) /\ IsStatus(out'.outcome)) =>
          IF ~SameGeneration(h)
            THEN /\ out'.recorded = "dropped"
                 /\ \/ cb'.counts = cb.counts
                    \/ cb'.counts = ZeroCounts
          ELSE IF out'.outcome >= 500
            THEN /\ out'.recorded = "failure"
                 /\ IF cb.state = StateClosed
                         /\ cb.counts.ConsecutiveFailures + 1 < FailuresToOpen
                      THEN /\ cb'.state = StateClosed
                           /\ cb'.counts = [cb.counts EXCEPT
                                              !.TotalFailures = @ + 1,
                                              !.ConsecutiveFailures = @ + 1,
                                              !.ConsecutiveSuccesses = 0]
                      ELSE cb'.state = StateOpen /\ cb'.counts = ZeroCounts
          ELSE /\ out'.recorded = "success"
               /\ cb'.counts.ConsecutiveFailures = 0
               /\ cb'.counts.TotalFailures <= cb.counts.TotalFailures
               /\ cb'.state = StateClosed
               /\ IF cb.state = StateClosed
                    THEN cb'.counts = [cb.counts EXCEPT
                                         !.TotalSuccesses = @ + 1,
                                         !.ConsecutiveSuccesses = @ + 1,
                                         !.ConsecutiveFailures = 0]
                    ELSE cb'.counts = ZeroCounts
    ]_vars

\* C7 witness: a 404 has just been recorded as a success right after a
\* recorded failure, on a CLOSED breaker.
C7_Witness ==
  /\ out.op = "Return" /\ out.outcome = 404 /\ out.recorded = "success"
  /\ cb.state = StateClosed
  /\ cb.counts.TotalFailures = 1 /\ cb.counts.ConsecutiveFailures = 0
  /\ cb.counts.TotalSuccesses = 1

\* This step left the breaker's five counters where they were or raised them.
TotalsNotDecreased ==
  /\ cb'.counts.Requests >= cb.counts.Requests
  /\ cb'.counts.TotalSuccesses >= cb.counts.TotalSuccesses
  /\ cb'.counts.TotalFailures >= cb.counts.TotalFailures
\* The counters right after a transition: all zero, or all zero but for the
\* request of the call whose admission made the transition.
ClearedCounts == {ZeroCounts, [ZeroCounts EXCEPT !.Requests = 1]}

\* C8 as stated: the total counters never decrease while the phase stays the
\* same, all five counters are zero after every phase transition, and only a
\* phase transition resets them.
C8_AsStated ==
  [][ /\ cb'.state = cb.state => TotalsNotDecreased
      /\ cb'.state # cb.state => cb'.counts \in ClearedCounts
    ]_vars

\* C8 amended: the total counters never decrease within a generation, all
\* five counters are cleared by every phase transition, and they are reset
\* only by a new generation: a phase transition or, while CLOSED, the first
\* call after a 10 s interval boundary.
C8_CountersPerGeneration ==
  [][ /\ cb'.generation = cb.generation
           => (cb'.state = cb.state /\ TotalsNotDecreased)
      /\ cb'.generation # cb.generation
           => /\ cb'.generation = cb.generation + 1
              /\ cb'.counts \in ClearedCounts
              /\ cb'.state = cb.state
                   => (cb.state = StateClosed /\ now > cb.expiry)
      /\ cb'.state # cb.state => cb'.generation # cb.generation
    ]_vars

\* C8 witness: a CLOSED breaker whose interval ended has just started a new
\* generation for an admitted call, and only that call is counted.
C8_Witness ==
  /\ cb.state = StateClosed /\ cb.generation = 2 /\ cb.expiry = now + 10
  /\ out = Admitted
  /\ cb.counts = [ZeroCounts EXCEPT !.Requests = 1]
  /\ \E h \in Handlers : pc[h] = "inflight" /\ before[h] = 1

\* C9: every ProxyJSON invocation makes at most one request to the upstream,
\* and exactly one when the breaker admits it.
C9_OneUpstreamRequest ==
  /\ \A h \in Handlers :
       /\ sent[h] <= 1
       /\ pc[h] = "inflight" <=> sent[h] = 1
  /\ out.sent <= 1
  /\ out.op = "Return" => out.sent = 1
  /\ (out.op \in {"Begin", "BadURL"}) => out.sent = 0

C9_Witness ==
  /\ out.op = "Return" /\ out.outcome = TransportError /\ out.sent = 1
  /\ \A h \in Handlers : pc[h] = "idle"

\* C10 as stated: an admitted call that fails at the transport level is
\* answered 502 and the breaker records one failure for it.
C10_AsStated ==
  (out.op = "Return" /\ out.outcome = TransportError)
    => (out.status = 502 /\ out.recorded = "failure")

\* C10 amended: an admitted call that fails at the transport level is answered
\* 502, and the breaker records one failure for it when the call returns in
\* the generation that admitted it; when the breaker has moved to a new
\* generation meanwhile, the outcome is dropped and nothing is recorded.
C10_TransportFailure ==
  [][ \A h \in Handlers :
        (ReturnStep(h) /\ out'.outcome = TransportError) =>
          /\ out'.status = 502 /\ out'.msg = MsgUpstreamFailed /\ out'.sent = 1
          /\ IF SameGeneration(h)
               THEN /\ out'.recorded = "failure"
                    /\ \/ /\ cb'.state = StateClosed
                          /\ cb'.counts.TotalFailures = cb.counts.TotalFailures + 1
                       \/ cb'.state = StateOpen /\ cb'.generation = cb.generation + 1
               ELSE /\ out'.recorded = "dropped"
                    /\ cb'.counts.TotalFailures <= cb.counts.TotalFailures
    ]_vars

C10_Witness ==
  /\ out.op = "Return" /\ out.outcome = TransportError
  /\ out.status = 502 /\ out.recorded = "failure"
  /\ cb.state = StateClosed /\ cb.counts.TotalFailures = 2

\* C11 as stated: an admitted call that gets an upstream status >= 500 is
\* answered with that status and the upstream body, and the breaker records a
\* failure for it.
C11_AsStated ==
  (out.op = "Return" /\ IsStatus(out.outcome) /\ out.outcome >= 500)
    => (out.status = out.outcome /\ out.msg = MsgBody /\ out.recorded = "failure")

\* C11 amended: an admitted call that gets an upstream status >= 500 is
\* answered with that status and the upstream body, never a 502 or 503 of the
\* gateway, also when its failure opens the breaker; the breaker records the
\* failure when the call returns in the generation that admitted it, and drops
\* the outcome when it has moved to a new generation meanwhile.
C11_UpstreamErrorForwarded ==
  [][ \A h \in Handlers :
        (ReturnStep(h) /\ IsStatus(out'.outcome) /\ out'.outcome >= 500) =>
          /\ out'.status = out'.outcome /\ out'.msg = MsgBody /\ out'.sent = 1
          /\ out'.status \notin {StatusBadGateway, StatusServiceUnavailable}
          /\ IF SameGeneration(h)
               THEN /\ out'.recorded = "failure"
                    /\ IF cb.state = StateClosed
                            /\ cb.counts.ConsecutiveFailures + 1 < FailuresToOpen
                         THEN /\ cb'.state = StateClosed
                              /\ cb'.counts.TotalFailures = cb.counts.TotalFailures + 1
                         ELSE cb'.state = StateOpen /\ opened'.at = now
               ELSE out'.recorded = "dropped"
    ]_vars

\* C11 witness: a 500 has just been forwarded to the caller of the call whose
\* failure opened the breaker.
C11_Witness ==
  /\ out.op = "Return" /\ out.outcome = 500 /\ out.status = 500
  /\ out.msg = MsgBody /\ out.recorded = "failure"
  /\ cb.state = StateOpen /\ opened = [at |-> now, by |-> "trip"]

\* ------------------------------------------ claims on the rate limiter
\* This step ran the middleware for a request.
MiddlewareStep == resp'.op = "Middleware"
\* This step made no use of the proxy, the breaker or the registry.
NoProxyStep ==
  /\ cb' = cb /\ pc' = pc /\ before' = before /\ sent' = sent
  /\ out' = NoOut
  /\ resp'.lookups = 0 /\ resp'.via = "none" /\ resp'.target = EmptyString

\* C12: a request the rate limiter rejects (its identity's bucket is empty)
\* is answered 429 with the JSON error body and goes no further: no registry
\* lookup, no upstream request, and the breaker's phase, generation and
\* counters stay as they were.
C12_RejectedGoesNoFurther ==
  [][ /\ (MiddlewareStep /\ TokensLeft(resp'.req.ip) = 0) => ~resp'.allowed
      /\ (MiddlewareStep /\ ~resp'.allowed) =>
           /\ resp'.status = StatusTooManyRequests
           /\ resp'.body = BodyTooManyRequests
           /\ NoProxyStep
    ]_vars

\* C12 witness: a POST /agent has just been answered 429 while a proxied call
\* is in flight and counted by the breaker.
C12_Witness ==
  /\ resp.op = "Middleware" /\ ~resp.allowed /\ resp.status = StatusTooManyRequests
  /\ resp.req = Request(ClientA, "POST", RouteAgent)
  /\ cb.counts.Requests >= 1
  /\ \E h \in Handlers : pc[h] = "inflight" /\ sent[h] = 1

\* The limiter's settings as the claims state them: tokens per second, burst.
RatePerSecond == 100
BurstSize == 200
\* 20 ms in the clock's unit.
TwentyMs == (20 * CsPerSecond) \div 1000
\* The identity whose request this step's middleware handled.
Asker == resp'.req.ip

\* C13: the requests allowed to an identity in any window of length T are at
\* most 200 + 100*T (T in seconds); of the requests sent to a fresh bucket at
\* one instant the first 200 are allowed and the 201st is rejected; and the
\* token count of every bucket is always between 0 and 200.
C13_BurstAndRate ==
  /\ [](\A ip \in Identities :
          Instant >= hist.start =>
            hist.of[ip].allowed * CsPerSecond
              <= BurstSize * CsPerSecond + RatePerSecond * (Instant - hist.start))
  /\ [](\A i \in 1..Len(limiters) :
          limiters[i].tokens >= 0 /\ limiters[i].tokens <= BurstSize)
  /\ [][ MiddlewareStep =>
           /\ hist'.of[Asker].asked \in 1..BurstSize => resp'.allowed
           /\ hist'.of[Asker].asked = BurstSize + 1 => ~resp'.allowed
       ]_vars

\* C13 witness: the 201st request of one instant has just been rejected, the
\* 200 before it allowed.
C13_Witness ==
  /\ resp.op = "Middleware" /\ ~resp.allowed /\ resp.req.ip = ClientA
  /\ hist.start = 0 /\ hist.of[ClientA].asked = BurstSize + 1
  /\ hist.of[ClientA].allowed = BurstSize
  /\ limiters[ips[ClientA]].tokens = 0

\* C14: a request that comes at least 20 ms after the identity's previous
\* request (or is its first) is never rejected, whatever came before, an
\* exhausted burst included.
C14_SpacedNeverRejected ==
  [][ (/\ MiddlewareStep
       /\ \/ hist.of[Asker].lastReq = NoInstant
          \/ Instant - hist.of[Asker].lastReq >= TwentyMs)
        => (resp'.allowed /\ resp'.status # StatusTooManyRequests) ]_vars

\* C14 witness: the burst was exhausted and a request 20 ms after the last
\* one has just been allowed, with the two tokens refilled meanwhile.
C14_Witness ==
  /\ resp.op = "Middleware" /\ resp.allowed /\ resp.req.ip = ClientA
  /\ Instant = TwentyMs
  /\ limiters[ips[ClientA]] =
       [NewLimiter(Rate, Burst) EXCEPT !.tokens = 1, !.last = TwentyMs]
  /\ hist.start = 0 /\ hist.of[ClientA].allowed = BurstSize + 1

\* C15: the decision on a request of an identity is the decision the
\* identity would get if it were the only client (its requests being the
\* same), whatever the other identities send; a request of one identity
\* leaves the bucket of every other identity as it was.
C15_IdentitiesIndependent ==
  [][ MiddlewareStep =>
        /\ resp'.allowed = Allow(hist.of[Asker].solo, Instant).ok
        /\ limiters'[ips'[Asker]] = hist'.of[Asker].solo
        /\ \A ip \in Identities \ {Asker} :
             /\ ips'[ip] = ips[ip]
             /\ ips[ip] # 0 => limiters'[ips[ip]] = limiters[ips[ip]]
    ]_vars

\* C15 witness: ClientB's request has just been allowed while ClientA, its
\* bucket empty, has been rejected.
C15_Witness ==
  /\ resp.op = "Middleware" /\ resp.allowed /\ resp.req.ip = ClientB
  /\ hist.of[ClientA].asked = BurstSize + 1
  /\ TokensLeft(ClientA) = 0
  /\ TokensLeft(ClientB) = BurstSize - 1

\* The identities that have a bucket.
Known == {ip \in Identities : ips[ip] # 0}

\* C16: under concurrent requests every identity has exactly one bucket:
\* the handlers that are past getLimiter for an identity all hold the one
\* bucket the map has for it, no bucket exists beside those of the map, a
\* bucket once in the map is never replaced or removed, and the requests
\* allowed for an identity never exceed what one bucket permits.
C16_OneBucketPerIdentity ==
  /\ [](LET one ==
            /\ Len(limiters) = Cardinality(Known)
            /\ \A ip \in Known : ips[ip] \in 1..Len(limiters)
            /\ \A ip, jp \in Known : ips[ip] = ips[jp] => ip = jp
            /\ \A h \in Handlers :
                 mw[h].stage = "limiter"
                   => (mw[h].lim = ips[mw[h].req.ip] /\ mw[h].lim # 0)
            /\ \A ip \in Identities :
                 hist.of[ip].allowed * CsPerSecond
                   <= BurstSize * CsPerSecond + RatePerSecond * Instant
        IN  one)
  /\ [][ \A ip \in Known : ips'[ip] = ips[ip] ]_vars

\* C16 witness: two handlers are past getLimiter with the first two requests
\* of one identity, and both hold its one, unused bucket.
C16_Witness ==
  /\ \A h \in {1, 2} :
       mw[h] = [stage |-> "limiter", req |-> HealthRequest(ClientB), lim |-> ips[ClientB]]
  /\ ips[ClientB] # 0 /\ ips[ClientA] = 0
  /\ limiters = <<NewLimiter(Rate, Burst)>>
  /\ hist.of[ClientB].lastReq = NoInstant

\* This step's middleware handled a GET /health request.
HealthStep ==
  MiddlewareStep /\ resp'.req.route = RouteHealth /\ resp'.req.method = "GET"

\* C17 as stated: every GET /health request is answered 200 with the body
\* {"status":"ok"}, for every client and after every history.
C17_AsStated ==
  (resp.op = "Middleware" /\ resp.req.route = RouteHealth /\ resp.req.method = "GET")
    => (resp.status = StatusOK /\ resp.body = BodyHealthOK)

\* C17 amended: every GET /health request that the rate limiter lets through
\* is answered 200 with the body {"status":"ok"}, for every client and after
\* every history of earlier requests, whatever the breaker's phase, and
\* without a registry lookup or a proxy call; a GET /health request of an
\* identity whose bucket is empty is answered 429 by the rate limiter.
C17_HealthBehindLimiter ==
  [][ HealthStep =>
        IF TokensLeft(Asker) > 0
          THEN /\ resp'.allowed
               /\ resp'.status = StatusOK /\ resp'.body = BodyHealthOK
               /\ NoProxyStep
          ELSE /\ ~resp'.allowed
               /\ resp'.status = StatusTooManyRequests
               /\ resp'.body = BodyTooManyRequests
    ]_vars

\* C17 witness: a GET /health has just been answered 200 with the body
\* while the breaker is OPEN.
C17_Witness ==
  /\ resp.op = "Middleware" /\ resp.req.route = RouteHealth /\ resp.req.method = "GET"
  /\ resp.allowed /\ resp.status = StatusOK /\ resp.body = BodyHealthOK
  /\ cb.state = StateOpen

\* This step's middleware let a POST to /agent or /agent/stream through.
AgentStep == MiddlewareStep /\ resp'.allowed /\ LooksUp(resp'.req)
\* The path and the proxy behind the request's route.
AgentPath ==
  IF resp'.req.route = RouteAgent THEN PathRecommendations
  ELSE PathRecommendationsStream
AgentVia == IF resp'.req.route = RouteAgent THEN "ProxyJSON" ELSE "ProxyStream"
\* The request was handed to its proxy with target base + path, and the
\* handler itself answered nothing.
DispatchedTo(base) ==
  /\ resp'.target = base \o AgentPath
  /\ resp'.via = AgentVia
  /\ resp'.status = 0
  /\ out' # NoOut
ResolutionFailures ==
  {ErrTransport, ErrResolveFailed, ErrDecode, ErrNoInstances, ErrMissingURL}

\* C18 as stated: for POST /agent and POST /agent/stream, if registry
\* resolution succeeds the resolved URL is the target; if it fails (transport
\* error, non-200, undecodable body, empty list, malformed instance) and a
\* static base URL is configured, the request is dispatched to the static URL
\* and the handler surfaces no error; if it fails and the static URL is
\* empty, the caller receives HTTP 500, no upstream request is made and the
\* breaker is unchanged.
C18_AsStated ==
  [][ AgentStep =>
        /\ resp'.lookups = 1
        /\ resp'.resolved.err \in {ErrNone} \cup ResolutionFailures
        /\ resp'.resolved.err = ErrNone => DispatchedTo(resp'.resolved.url)
        /\ (resp'.resolved.err # ErrNone /\ cfg.AgentBaseURL # EmptyString)
             => DispatchedTo(cfg.AgentBaseURL)
        /\ (resp'.resolved.err # ErrNone /\ cfg.AgentBaseURL = EmptyString)
             => /\ resp'.status = StatusInternalServerError
                /\ resp'.body = BodyNoBaseURL
                /\ cb' = cb /\ pc' = pc /\ sent' = sent /\ out' = NoOut
    ]_vars

\* The failing case: resolution succeeded with an empty URL (a home page of
\* slashes only) and the caller got 500 although a static URL is configured.
C18_Failing ==
  /\ resp.op = "Middleware" /\ resp.allowed /\ LooksUp(resp.req)
  /\ resp.resolved.err = ErrNone /\ resp.resolved.url = EmptyString
  /\ cfg.AgentBaseURL # EmptyString
  /\ resp.status = StatusInternalServerError

\* The registry's list has been resolved.
Resolved == eureka.done /\ eureka.reply.kind = "ok"
Listed == eureka.reply.instances
\* The instance's status is UP in some mix of cases.
IsUp(inst) ==
  inst.status \in {<<"U", "P">>, <<"U", "p">>, <<"u", "P">>, <<"u", "p">>}

\* C19: over any instance list ResolveBaseURL selects the first instance
\* whose status is UP ignoring case (never a later UP one, never a non-UP one
\* when some instance is UP); when no instance is UP it selects the first of
\* the list; when the list is empty it fails with the no-instances error.
C19_FirstUpElseFirst ==
  Resolved =>
    LET n == Len(Listed)
        k == eureka.result.chosen
    IN  /\ n = 0 => (k = 0 /\ eureka.result.err = ErrNoInstances)
        /\ n > 0 => /\ k \in 1..n
                    /\ eureka.result.err # ErrNoInstances
                    /\ (\E i \in 1..n : IsUp(Listed[i]))
                         => (IsUp(Listed[k]) /\ \A j \in 1..(k - 1) : ~IsUp(Listed[j]))
                    /\ (\A i \in 1..n : ~IsUp(Listed[i])) => k = 1

\* C19 witness: a list whose first instance is not UP and which has two UP
\* instances after it has been resolved to the first of the two.
C19_Witness ==
  /\ Resolved
  /\ Len(Listed) = 3
  /\ ~IsUp(Listed[1]) /\ IsUp(Listed[2]) /\ IsUp(Listed[3])
  /\ Listed[2] # Listed[3]
  /\ eureka.result.chosen = 2

\* An instance was selected.
Selected == Resolved /\ eureka.result.chosen # 0
SelectedInstance == Listed[eureka.result.chosen]
HasHomePage == SelectedInstance.homePageUrl # EmptyString
HasIPPort == SelectedInstance.ipAddr # EmptyString /\ SelectedInstance.port # 0
IPPortURL ==
  <<"http://">> \o SelectedInstance.ipAddr \o <<":">> \o Itoa(SelectedInstance.port)
\* u is s without the slashes at its end.
WithoutTrailingSlashes(u, s) ==
  \E k \in 0..Len(s) :
    /\ u = SubSeq(s, 1, k)
    /\ k > 0 => s[k] # "/"
    /\ \A j \in (k + 1)..Len(s) : s[j] = "/"

\* C20 as stated: for the selected instance ResolveBaseURL returns the
\* declared home-page URL when it is non-empty, http://{ip}:{port} when the
\* home page is absent, and fails with the malformed-instance error only
\* when neither the home page nor the IP and port are present.
C20_AsStated ==
  Selected =>
    /\ HasHomePage =>
         (eureka.result.err = ErrNone /\ eureka.result.url = SelectedInstance.homePageUrl)
    /\ (~HasHomePage /\ HasIPPort) =>
         (eureka.result.err = ErrNone /\ eureka.result.url = IPPortURL)
    /\ eureka.result.err = ErrMissingURL <=> (~HasHomePage /\ ~HasIPPort)

\* C20 amended: for the selected instance ResolveBaseURL returns the
\* declared home-page URL without its trailing slashes when the home page is
\* non-empty (the empty string when it consists of slashes only),
\* http://{ip}:{port} when the home page is absent, and fails with the
\* malformed-instance error only when neither the home page nor both the IP
\* and a non-zero port are present.
C20_AddressOfSelected ==
  Selected =>
    /\ HasHomePage =>
         /\ eureka.result.err = ErrNone
         /\ WithoutTrailingSlashes(eureka.result.url, SelectedInstance.homePageUrl)
    /\ (~HasHomePage /\ HasIPPort) =>
         (eureka.result.err = ErrNone /\ eureka.result.url = IPPortURL)
    /\ eureka.result.err = ErrMissingURL <=> (~HasHomePage /\ ~HasIPPort)

\* C20 witness: the selected instance declares a home page that ends in a
\* slash as well as an IP and a port, and the home page without the slash
\* was returned.
C20_Witness ==
  /\ Selected
  /\ HasHomePage /\ HasIPPort
  /\ SelectedInstance.homePageUrl[Len(SelectedInstance.homePageUrl)] = "/"
  /\ eureka.result.err = ErrNone
  /\ eureka.result.url # SelectedInstance.homePageUrl
  /\ eureka.result.url # EmptyString

\* ------------------------------------- claims on registration and heartbeats
\* This step is the goroutine's step k.
BgStepIs(k) == bg' # bg /\ bg'.step = k

C22_RegisterThenHeartbeats ==
  [][ /\ BgStepIs("Heartbeat") => bg.registered
      /\ BgStepIs("Register") => ~bg.registered
    ]_vars

\* C22 witness: a heartbeat has failed after registration at the second
\* attempt, and a later heartbeat has been sent.
C22_Witness ==
  /\ bg.step = "Heartbeat" /\ bg.registered
  /\ bg.registers = 2 /\ bg.missed >= 1 /\ bg.beats >= 2

\* C23: a failed heartbeat neither stops the heartbeat loop nor terminates
\* the process nor triggers a Register call: the ticker stays armed with its
\* 30 s period, every tick's heartbeat is sent whatever heartbeats failed
\* before, and requests are still handled.
C23_FailedHeartbeatNonFatal ==
  /\ [][ BgStepIs("Heartbeat") =>
           /\ bg'.pc = "ticker" /\ bg'.timer = 30
           /\ bg'.running
           /\ bg'.registers = bg.registers
     ]_vars
  /\ [](bg.missed > 0 => (bg.running /\ bg.pc = "ticker"))
  /\ [][ (bg.missed > 0 /\ resp'.op = "Middleware") => resp'.status = StatusOK ]_vars
  /\ [](( bg.missed > 0 /\ bg.timer = 0) => <>(bg.step = "Heartbeat" /\ bg.timer = 30))

\* C23 witness: a GET /health is answered 200 after MaxCount failed
\* heartbeats.
C23_Witness ==
  /\ bg.missed = MaxCount
  /\ resp.op = "Middleware" /\ resp.status = StatusOK

\* ------------------------------------------------ claims on the responses
\* The latest step answered a request to /agent or /agent/stream with a
\* failure the gateway generated itself: in the middleware or the handler ...
OwnFailureInHandler ==
  /\ resp.op = "Middleware"
  /\ resp.req.route \in {RouteAgent, RouteAgentStream} /\ resp.req.method = "POST"
  /\ resp.status \in {StatusTooManyRequests, StatusInternalServerError}
\* ... or in the proxy: breaker open, half-open limit, transport failure.
OwnFailureInProxy ==
  /\ out.op \in {"Begin", "Return"}
  /\ \/ out.status = StatusServiceUnavailable /\ out.sent = 0
     \/ out.status = StatusBadGateway /\ out.outcome = TransportError

\* C24 as stated: every failure response the gateway itself generates on the
\* /agent pipeline (429, 500 no target, 503 breaker open, 503 half-open
\* limit, 502 transport failure) carries a JSON error body with a
\* human-readable reason.
C24_AsStated ==
  /\ OwnFailureInHandler => (resp.ctype = ApplicationJSON /\ resp.body # "none")
  /\ OwnFailureInProxy => (out.ctype = ApplicationJSON /\ out.msg # "none")

\* The failing case: the breaker is open and the caller of POST /agent gets
\* the 503 as plain text.
C24_Failing ==
  /\ resp.op = "Middleware" /\ resp.allowed /\ resp.req.route = RouteAgent
  /\ out.op = "Begin" /\ out.status = StatusServiceUnavailable
  /\ out.msg = MsgOpen /\ out.ctype = TextPlain

\* ------------------------------------------- claims on /admin/circuit-breaker
\* Handler h took a step of the /admin/circuit-breaker handler.
AdminStep(h) == adm'[h].stage # adm[h].stage

StreamReturned == out'.op = "Return" /\ resp'.via = "ProxyStream"
BufferedReturned == out'.op = "Return" /\ resp'.via = "ProxyJSON"
\* The breaker counted the failure of handler h's call of the running closed
\* generation: one more failure in a row, or the trip at the threshold.
CountedOneFailure ==
  LET c == CurrentState(cb, now) IN
    IF c.counts.ConsecutiveFailures + 1 >= FailuresToOpen
      THEN cb'.state = StateOpen
      ELSE /\ cb'.state = StateClosed
           /\ cb'.counts.ConsecutiveFailures = c.counts.ConsecutiveFailures + 1
           /\ cb'.counts.TotalFailures = c.counts.TotalFailures + 1

\* C26: /agent/stream and /agent go through the same breaker: a call of
\* either kind that fails (transport error or 5xx) while the breaker is
\* closed adds one to the same consecutive-failure counter or trips the
\* breaker at the third, and while the breaker is open a dispatched call of
\* either kind is answered 503 "open" with no upstream request.
C26_SameBreaker ==
  [][ /\ \A h \in Handlers :
           ( /\ ReturnStep(h)
             /\ StreamReturned \/ BufferedReturned
             /\ IsFailure(out'.outcome)
             /\ CurrentState(cb, now).state = StateClosed
             /\ before[h] = CurrentState(cb, now).generation )
           => CountedOneFailure
      /\ ( /\ AgentStep
           /\ resp'.via \in {"ProxyJSON", "ProxyStream"}
           /\ CurrentState(cb, now).state = StateOpen )
         => (RejectedStep(MsgOpen) /\ st' = st)
    ]_vars
\* A streaming call failed outright and that failure, the third in a row,
\* opened the breaker.
C26_Witness ==
  /\ out.op = "Return" /\ resp.via = "ProxyStream"
  /\ IsFailure(out.outcome)
  /\ cb.state = StateOpen /\ opened = [at |-> now, by |-> "trip"]


\* Sequence a is a prefix of sequence b.
IsPrefixOf(a, b) == Len(a) <= Len(b) /\ SubSeq(b, 1, Len(a)) = a

\* C27: within one streaming call the chunks delivered to the caller are a
\* prefix of the chunks received from the upstream, in the same order; a
\* chunk is read only when every chunk received before it has been written
\* and flushed, and each write delivers exactly the chunks received so far.
C27_ChunksInOrder ==
  [][ \A h \in Handlers :
        (st[h].stage = "copying" /\ st'[h].stage = "copying") =>
          /\ IsPrefixOf(st'[h].put, st'[h].got)
          /\ Len(st'[h].got) > Len(st[h].got) =>
               (st[h].put = st[h].got /\ Len(st'[h].got) = Len(st[h].got) + 1)
          /\ st'[h].put # st[h].put => st'[h].put = st[h].got
    ]_vars
\* A stream still open whose caller has received MaxChunks chunks one by one.
C27_Witness ==
  \E h \in Handlers :
    /\ st[h].stage = "copying" /\ st[h].upstream = "open"
    /\ st[h].caller = "here"
    /\ Len(st[h].put) = MaxChunks /\ st[h].put = st[h].got

\* C28: a streaming call whose caller has disconnected comes to its end
\* (the upstream request canceled, the handler returned), and a streaming
\* call whose upstream has dropped comes to its end: none stays open.
C28_StreamsEnd ==
  \A h \in Handlers :
    /\ (Open(h) /\ st[h].caller = "gone") ~> ~Open(h)
    /\ (Open(h) /\ st[h].upstream = "dropped") ~> ~Open(h)
\* A stream just ended by the cancellation that followed its caller's
\* leaving, after a chunk had been delivered.
C28_Witness ==
  /\ resp.op = "ProxyStream" /\ resp.body = "canceled"
  /\ \A h \in Handlers : ~Open(h)


\* Time passes in this step.
CtxPassStep == \E h \in Handlers : rq'[h].age > rq[h].age

\* C29 as stated: every outbound call of a request, the registry lookup
\* and the upstream call, is bound to the request's context: no time passes
\* with a call in flight whose caller is gone or whose request's deadline
\* has expired.
C29_AsStated ==
  [][ CtxPassStep =>
        \A h \in Handlers :
          InFlight(rq[h]) =>
            (rq[h].caller = "here" /\ rq[h].age < RequestTimeout)
    ]_vars
\* An upstream call in flight past the deadline of its request's context:
\* it began after a lookup that took time, with a timeout of its own.
C29_Failing ==
  \E h \in Handlers :
    /\ rq[h].stage = "proxy" /\ pc[h] = "inflight"
    /\ rq[h].caller = "here"
    /\ rq[h].age > RequestTimeout


\* This step served GET /api-docs/aggregate.
AggregateStep ==
  /\ resp'.op = "Aggregate"
  /\ resp'.req.route = RouteAggregate /\ resp'.req.method = "GET"
\* The answer lists the agent's entry.
ListsAgent == \E i \in 1..Len(resp'.services) : resp'.services[i] = AgentEntry
\* The target was resolved: by the registry, else by the static URL.
TargetResolved ==
  \/ resp'.resolved.err = ErrNone /\ resp'.resolved.url # EmptyString
  \/ resp'.resolved.err # ErrNone /\ cfg.AgentBaseURL # EmptyString

IdentifiedStep == MiddlewareStep /\ "header" \in DOMAIN resp'.req
\* id is the left-most comma-separated entry of v, trimmed.
IsLeftMost(id, v) ==
  \E i \in 1..Len(v) : \E j \in i..Len(v) :
    /\ v[i] = id
    /\ \A k \in 1..(i - 1) : v[k] = Space
    /\ \A k \in (i + 1)..j : v[k] = Space
    /\ j = Len(v) \/ v[j + 1] = Comma
\* id is the host part of the peer address.
IsHostPart(id, addr) == addr = <<id>> \/ (Len(addr) = 3 /\ addr[1] = id /\ addr[2] = Colon)
\* The bucket (the limiter's address) the identity is charged to.
BucketOf(id) == ips'[id]
\* The request before this one came from the same peer with its own
\* forwarded-for header.
SamePeerBefore ==
  /\ resp.op = "Middleware" /\ "header" \in DOMAIN resp.req
  /\ resp.req.remote = resp'.req.remote
  /\ resp.req.header.present /\ resp'.req.header.present

\* C31 as stated: the identity is the left-most entry of the forwarded-for
\* header, trimmed, whenever the header is present, else the host part of
\* the peer address; requests of one peer with different forwarded-for
\* values are charged to different buckets.
C31_AsStated ==
  [][ IdentifiedStep =>
        LET r == resp'.req IN
          /\ IF r.header.present THEN IsLeftMost(r.ip, r.header.value)
             ELSE IsHostPart(r.ip, r.remote)
          /\ (SamePeerBefore /\ resp.req.header.value # r.header.value)
               => BucketOf(resp.req.ip) # BucketOf(r.ip)
    ]_vars

\* C31: the identity is the left-most entry of the forwarded-for header,
\* trimmed, whenever the header is present with a value that is not empty,
\* else the host part of the peer address; requests of one peer whose
\* forwarded-for values differ in their left-most entry are charged to
\* different buckets.
C31_LeftMostOrPeer ==
  [][ IdentifiedStep =>
        LET r == resp'.req IN
          /\ IF r.header.present /\ r.header.value # EmptyString
               THEN IsLeftMost(r.ip, r.header.value)
               ELSE IsHostPart(r.ip, r.remote)
          /\ ( /\ SamePeerBefore
               /\ \E a, b \in Identities :
                    /\ a # b
                    /\ IsLeftMost(a, resp.req.header.value)
                    /\ IsLeftMost(b, r.header.value) )
               => BucketOf(resp.req.ip) # BucketOf(r.ip)
    ]_vars
\* Two requests of one peer, the later one charged to the identity its
\* header names first, which is not the peer's, and to its own bucket.
C31_Witness ==
  /\ resp.op = "Middleware" /\ "header" \in DOMAIN resp.req
  /\ resp.req.header.present /\ Len(resp.req.header.value) > 1
  /\ resp.req.ip # resp.req.remote[1]
  /\ ips[resp.req.ip] # 0 /\ ips[resp.req.remote[1]] # 0
  /\ ips[resp.req.ip] # ips[resp.req.remote[1]]


\* A call began or returned in this step: the breaker was consulted.
BreakerStep == out'.op \in {"Begin", "Return"}
\* The CLOSED breaker's interval has run out: a boundary lies behind.
PastInterval == cb.state = StateClosed /\ Before(cb.expiry, now)

\* C32: the first call or return after a 10 s interval boundary of the
\* CLOSED breaker finds the counters cleared in a new generation, the phase
\* still CLOSED and the next boundary 10 s ahead; and the breaker goes from
\* CLOSED to OPEN only on a failure of a call of the running generation
\* that finds two failures in a row counted in that same generation.
C32_IntervalClearsCounters ==
  [][ /\ (BreakerStep /\ PastInterval) =>
            /\ cb'.state = StateClosed
            /\ cb'.generation = cb.generation + 1
            /\ cb'.expiry = now + Interval
            /\ cb'.counts.Requests <= 1
            /\ cb'.counts.TotalFailures = 0 /\ cb'.counts.ConsecutiveFailures = 0
            /\ cb'.counts.TotalSuccesses = 0 /\ cb'.counts.ConsecutiveSuccesses = 0
      /\ (cb.state = StateClosed /\ cb'.state = StateOpen) =>
            /\ out'.op = "Return" /\ IsFailure(out'.outcome)
            /\ ~PastInterval
            /\ \E h \in Handlers : ReturnStep(h) /\ before[h] = cb.generation
            /\ cb.counts.ConsecutiveFailures = FailuresToOpen - 1
            /\ cb.counts.TotalFailures >= FailuresToOpen - 1
    ]_vars
\* Three failures in a row, an interval boundary among them: the breaker is
\* still CLOSED, in a later generation with fewer than three failures.
C32_Witness ==
  /\ out.op = "Return" /\ IsFailure(out.outcome)
  /\ streak.row = FailuresToOpen /\ streak.rec < FailuresToOpen
  /\ cb.state = StateClosed /\ cb.generation > 0
  /\ cb.counts.ConsecutiveFailures < FailuresToOpen


\* Handler h's upstream call returned in this step because its caller had
\* gone.
CancelReturn(h) ==
  ReturnStep(h) /\ rq[h].stage = "proxy" /\ rq[h].caller = "gone"

\* C33 as stated: a call ended by its caller's cancellation is recorded as
\* a breaker failure, and the third such cancellation in a row opens the
\* breaker.
C33_AsStated ==
  [][ \A h \in Handlers :
        CancelReturn(h) =>
          /\ out'.recorded = "failure"
          /\ streak'.row = FailuresToOpen => cb'.state = StateOpen
    ]_vars

\* C33: a call ended by its caller's cancellation while the breaker is still
\* in the generation that admitted it is recorded as a breaker failure, and
\* the third such cancellation in a row within one generation of the CLOSED
\* breaker opens it, though the upstream never failed.
C33_CancellationCounts ==
  [][ \A h \in Handlers :
        (CancelReturn(h) /\ before[h] = CurrentState(cb, now).generation) =>
          /\ out'.outcome = TransportError
          /\ out'.recorded = "failure"
          /\ CurrentState(cb, now).state = StateClosed => CountedOneFailure
          /\ streak'.rec = FailuresToOpen => cb'.state = StateOpen
    ]_vars
\* The third cancellation in one generation has just opened the breaker.
C33_Witness ==
  /\ out.op = "Return" /\ out.outcome = TransportError
  /\ out.recorded = "failure"
  /\ streak.rec = FailuresToOpen
  /\ cb.state = StateOpen /\ opened = [at |-> now, by |-> "trip"]
  /\ \A h \in Handlers : rq[h].caller # "gone"

\* Handler h's call returns in this step, admitted by a generation the
\* breaker has left since.
LateReturn(h) ==
  ReturnStep(h) /\ before[h] # CurrentState(cb, now).generation

\* C34: every change of phase starts a new generation and generations never
\* come back, so a call admitted in one phase that finishes after the breaker
\* moved to another phase belongs to an earlier generation; its outcome is
\* dropped: the breaker is left as the clock alone makes it, counters and
\* phase. A late success does not close an OPEN or HALF_OPEN breaker and a
\* late failure does not re-open (or count against) a since-closed breaker.
C34_LateOutcomeDropped ==
  [][ /\ cb'.generation >= cb.generation
      /\ cb'.state # cb.state => cb'.generation > cb.generation
      /\ \A h \in Handlers :
           /\ pc[h] = "inflight" => before[h] <= cb.generation
           /\ LateReturn(h) =>
                /\ out'.recorded = "dropped"
                /\ cb' = CurrentState(cb, now)
                /\ cb'.state = CurrentState(cb, now).state
                /\ cb'.counts = CurrentState(cb, now).counts
                /\ (CurrentState(cb, now).state # StateClosed)
                      => cb'.state # StateClosed
                /\ (CurrentState(cb, now).state = StateClosed)
                      => cb'.state = StateClosed
    ]_vars
\* A success arrived while the breaker was OPEN (no call is admitted by an
\* OPEN breaker: it was admitted before the trip) and the breaker is still
\* OPEN; or a failure arrived at a breaker closed again since, and counts
\* nothing.
C34_Witness ==
  /\ out.op = "Return" /\ out.recorded = "dropped"
  /\ \/ ~IsFailure(out.outcome) /\ cb.state = StateOpen
     \/ /\ IsFailure(out.outcome) /\ cb.state = StateClosed
        /\ sinceClose >= 0 /\ cb.counts.TotalFailures = 0

CountsConsistent(c, state) ==
  /\ c.TotalSuccesses + c.TotalFailures <= c.Requests
  /\ ~(c.ConsecutiveSuccesses > 0 /\ c.ConsecutiveFailures > 0)
  /\ c.ConsecutiveFailures <= c.TotalFailures
  /\ state = StateClosed => c.ConsecutiveFailures < FailuresToOpen

\* C36: at every moment total successes plus total failures do not exceed
\* the requests, consecutive successes and consecutive failures are never
\* both positive, consecutive failures do not exceed total failures, and a
\* CLOSED breaker has fewer than three consecutive failures; as stored and
\* as the breaker reports them at the current time.
C36_CountersConsistent ==
  /\ CountsConsistent(cb.counts, cb.state)
  /\ CountsConsistent(CurrentState(cb, now).counts, CurrentState(cb, now).state)
\* A CLOSED breaker one failure short of tripping, after a success.
C36_Witness ==
  /\ cb.state = StateClosed
  /\ cb.counts.TotalSuccesses >= 1
  /\ cb.counts.ConsecutiveFailures = FailuresToOpen - 1
  /\ cb.counts.ConsecutiveSuccesses = 0
  /\ cb.counts.Requests = cb.counts.TotalSuccesses + cb.counts.TotalFailures
  /\ out.op = "Return" /\ out.recorded = "failure"

\* ------------------------------------------- an upstream that recovers
\* The upstream has recovered: it answers every request, below 500. It does
\* so early enough for a cooldown to run out before the clock's last step.
Healthy == now > MaxTime - Timeout - Interval
\* client.Do returns with outcome o: a failure only before the recovery.
HealthyReturn(h, o) == (Healthy => ~IsFailure(o)) /\ Return(h, o)

HealthyNext ==
  \/ Tick
  \/ \E h \in Handlers : Begin(h)
  \/ \E h \in Handlers, o \in Outcomes : HealthyReturn(h, o)

\* Time passes, callers keep sending and every call in flight returns.
HealthySpec ==
  /\ Init /\ [][HealthyNext]_vars
  /\ WF_vars(Tick)
  /\ WF_vars(\E h \in Handlers : Begin(h))
  /\ WF_vars(\E h \in Handlers, o \in Outcomes : HealthyReturn(h, o))

\* C37: when from some point on the upstream answers every request below 500
\* and callers keep sending, the breaker is eventually CLOSED and stays
\* CLOSED, and from then on every call is admitted and forwarded.
C37_Recovers ==
  /\ <>[](Healthy /\ cb.state = StateClosed
            /\ CurrentState(cb, now).state = StateClosed)
  /\ <>[][BeginStep => (out' = Admitted /\ \E h \in Handlers : sent'[h] = sent[h] + 1)]_vars
\* After the recovery the half-open probe has just closed the breaker.
C37_Witness ==
  /\ Healthy
  /\ out.op = "Return" /\ out.recorded = "success"
  /\ cb.state = StateClosed /\ sinceClose = 0

\* This step's middleware handled a request to /agent or /agent/stream
\* whose method is not POST.
NonPostStep ==
  /\ MiddlewareStep
  /\ resp'.req.route \in {RouteAgent, RouteAgentStream}
  /\ resp'.req.method # "POST"
\* The tokens of the asker's bucket after this step.
TokensAfter == limiters'[ips'[Asker]].tokens

\* C38: a request to /agent or /agent/stream whose method is not POST, let
\* through by the rate limiter, is answered 405: it costs its identity one
\* token, and there is no registry lookup, no upstream request and no change
\* of the breaker.
C38_NonPostIs405 ==
  [][ (NonPostStep /\ resp'.allowed) =>
        /\ resp'.status = StatusMethodNotAllowed
        /\ resp'.body = BodyMethodNotAllowed
        /\ TokensLeft(Asker) >= 1
        /\ TokensAfter = TokensLeft(Asker) - 1
        /\ resp'.lookups = 0 /\ resp'.resolved = NoResult
        /\ NoProxyStep
        /\ hist'.of[Asker].allowed = hist.of[Asker].allowed + 1
    ]_vars
\* A GET /agent/stream has just been answered 405 from its identity's last
\* token, a proxied call being in flight.
C38_Witness ==
  /\ resp.op = "Middleware" /\ resp.allowed
  /\ resp.req.route = RouteAgentStream /\ resp.req.method = "GET"
  /\ resp.status = StatusMethodNotAllowed
  /\ TokensLeft(resp.req.ip) = 0
  /\ \E h \in Handlers : pc[h] = "inflight"

\* ------------------------------ the handlers over lists of two instances
\* The registry's list is drawn at the start: one or two instances of any
\* kind. A client sends a few POST requests to /agent and /agent/stream,
\* with and without a static base URL.
CommitLists == UNION {[1..n -> InstanceSet] : n \in 1..2}
CommitInit ==
  /\ BreakerInit
  /\ MiddlewareInit
  /\ cfg \in Configs
  /\ mcp = NoBridge
  /\ hist = NewHist(0)
  /\ eureka \in {[reply |-> ReplyOK(l), result |-> NoResult, done |-> FALSE] :
                   l \in CommitLists}
  /\ ServiceInit

CommitNext ==
  \/ \E h \in Handlers, route \in {RouteAgent, RouteAgentStream} :
       /\ hist.of[ClientB].asked < MaxOther + 1
       /\ Middleware(h, Request(ClientB, "POST", route), eureka.reply)
  \/ \E h \in Handlers : Return(h, StatusOK)

CommitSpec == CommitInit /\ [][CommitNext]_vars

\* The instance has neither a home page nor both an IP and a non-zero port.
Malformed(inst) ==
  /\ inst.homePageUrl = EmptyString
  /\ inst.ipAddr = EmptyString \/ inst.port = 0
\* Instance k is the first UP instance of the list.
FirstUp(l, k) == IsUp(l[k]) /\ \A j \in 1..(k - 1) : ~IsUp(l[j])
\* The first UP instance of the registry's list is malformed.
FirstUpMalformed ==
  \E k \in 1..Len(Listed) : FirstUp(Listed, k) /\ Malformed(Listed[k])

\* C39: when the first UP instance of the list has neither a home page nor a
\* usable IP and port, resolution fails with the malformed-instance error,
\* whatever instances follow it (a later UP, well-formed one included), and
\* the handler goes on with the static base URL: the request is dispatched
\* to it, or answered 500 when it is empty.
C39_CommitsToSelected ==
  [][ (AgentStep /\ FirstUpMalformed) =>
        /\ resp'.lookups = 1
        /\ resp'.resolved.err = ErrMissingURL
        /\ resp'.resolved.url = EmptyString
        /\ FirstUp(Listed, resp'.resolved.chosen)
        /\ cfg.AgentBaseURL # EmptyString => DispatchedTo(cfg.AgentBaseURL)
        /\ cfg.AgentBaseURL = EmptyString =>
             /\ resp'.status = StatusInternalServerError
             /\ resp'.body = BodyNoBaseURL
             /\ out' = NoOut
    ]_vars
\* A POST /agent has been dispatched to the static URL: the list's first
\* instance is UP and malformed, the second is UP with a home page.
C39_Witness ==
  /\ resp.op = "Middleware" /\ resp.allowed
  /\ resp.req = Request(ClientB, "POST", RouteAgent)
  /\ Len(Listed) = 2
  /\ IsUp(Listed[1]) /\ Malformed(Listed[1])
  /\ IsUp(Listed[2]) /\ Listed[2].homePageUrl # EmptyString
  /\ resp.resolved.err = ErrMissingURL /\ resp.resolved.chosen = 1
  /\ resp.target = StaticBaseURL \o PathRecommendations
  /\ resp.via = "ProxyJSON"

\* --------------------------------------------------- the MCP bridge's steps
\* The variables of the gateway.
gateway ==
  <<now, cb, pc, before, sent, out, opened, streak, sinceClose, cs, ips,
    limiters, mw, cfg, resp, hist, eureka, bg, adm, st, rq>>

\* A timer is due: Node runs its callback before the clock moves on.
Due(r) == r.timer >= TimeoutMs

\* POST / or POST /mcp: the next call of sendJsonRpc, with or without an id.
McpSend(c, payloadId) ==
  /\ mcp.call[c].stage = "none"
  /\ \A d \in 1..(c - 1) : mcp.call[d].stage # "none"
  /\ mcp' = sendJsonRpc(mcp, c, payloadId)
  /\ UNCHANGED gateway

\* The child answers one of the lines it has read.
McpReply(k) ==
  /\ k \in 1..Len(mcp.stdin)
  /\ mcp' = OnStdout(mcp, k)
  /\ UNCHANGED gateway

\* The timer of call c fires.
McpTimer(c) ==
  /\ Due(mcp.call[c])
  /\ \A d \in Calls : mcp.call[d].timer <= mcp.call[c].timer
  /\ mcp' = OnTimer(mcp, c)
  /\ UNCHANGED gateway

\* Half the timeout passes for every running timer.
McpTick ==
  /\ \E c \in Calls : mcp.call[c].timer # NoTimer
  /\ \A c \in Calls : ~Due(mcp.call[c])
  /\ mcp' = [mcp EXCEPT
               !.call = [c \in Calls |->
                           IF mcp.call[c].timer = NoTimer THEN mcp.call[c]
                           ELSE [mcp.call[c] EXCEPT !.timer = @ + McpStep]],
               !.last = "tick"]
  /\ UNCHANGED gateway

BridgeNext ==
  \/ \E c \in Calls, payloadId \in {NoId} \cup CallerIds : McpSend(c, payloadId)
  \/ \E k \in 1..MaxCalls : McpReply(k)
  \/ \E c \in Calls : McpTimer(c)
  \/ McpTick

BridgeSpec == Init /\ [][BridgeNext]_vars

\* C40: every request sent through sendJsonRpc is settled once, by the first
\* reply of the child that carries its id or by the 60 s timeout, and its
\* entry leaves the pending map when it is settled, not before; also when
\* two requests in flight carry the same id. No reply with a request's id
\* passes an unsettled request by, an unsettled request has its entry and a
\* running timer, and a settled one has neither.
C40_AsStated ==
  \A c \in Calls :
    LET r == mcp.call[c] IN
      /\ ~r.missed
      /\ r.stage = "pending" => (mcp.pending[r.id] = c /\ r.timer # NoTimer)
      /\ r.stage \in {"resolved", "rejected"} =>
           /\ mcp.pending[r.id] # c /\ r.timer = NoTimer
           /\ r.by = (IF r.stage = "resolved" THEN "reply" ELSE "timeout")
\* Two requests were in flight with the same id: the child's first reply
\* with that id resolved the later one, and the earlier one, passed by, has
\* been rejected by its timeout and answered 502.
C40_Failing ==
  \E c, d \in Calls :
    /\ c < d
    /\ mcp.call[c].id = mcp.call[d].id /\ mcp.call[c].id \in CallerIds
    /\ mcp.call[d].stage = "resolved" /\ mcp.call[d].status = StatusOK
    /\ mcp.call[c].stage = "rejected" /\ mcp.call[c].missed
    /\ mcp.call[c].status = StatusBadGateway

=============================================================================
